---- MODULE Spec2Model ----
(***************************************************************************)
(* Client-side interaction core of the Hackable Mini Layout Tool:          *)
(* the positional store (itemPositions), the undo/redo history             *)
(* (positionHistory, historyIndex), the gesture handlers, the load /       *)
(* apply / save round trip.                                                *)
(*                                                                         *)
(* JavaScript objects are modelled on a heap: `heap` maps an object        *)
(* address to the object's contents.  Address 0 is the `itemPositions`     *)
(* object (a const binding, mutated in place); every other address is a    *)
(* history snapshot.  positionHistory holds addresses, so that a snapshot  *)
(* that aliases the live store is expressible.                             *)
(*                                                                         *)
(* A property value is wrapped: <<v>> is the value v, <<>> is a property   *)
(* that is present with the value `undefined` (JSON.stringify drops it).   *)
(***************************************************************************)
EXTENDS Integers, Sequences, FiniteSets, TLC

\* ------------------------------------------------------------------ values

Undefined == <<>>
Def(v) == <<v>>
Val(w) == w[1]

\* `${n}px`
Px(n) == ToString(n) \o "px"

\* obj.f !== undefined
Has(rec, f) == f \in DOMAIN rec /\ rec[f] # Undefined

\* { ...a, ...b }
Spread(a, b) == [f \in DOMAIN a \cup DOMAIN b |-> IF f \in DOMAIN b THEN b[f] ELSE a[f]]

\* delete obj[f]
Delete(rec, f) == [g \in DOMAIN rec \ {f} |-> rec[g]]

\* A JavaScript object used as a map: its own keys in insertion order, and the
\* value under each key
EmptyObject == [keys |-> <<>>, rec |-> [k \in {} |-> <<>>]]

Range(s) == {s[i] : i \in DOMAIN s}

\* key in obj
HasKey(obj, k) == k \in DOMAIN obj.rec

\* obj[k] = v
SetKey(obj, k, v) ==
    [keys |-> IF HasKey(obj, k) THEN obj.keys ELSE Append(obj.keys, k),
     rec |-> [j \in DOMAIN obj.rec \cup {k} |-> IF j = k THEN v ELSE obj.rec[j]]]

\* delete obj[k]
DeleteKey(obj, k) ==
    [keys |-> SelectSeq(obj.keys, LAMBDA j : j # k),
     rec |-> [j \in DOMAIN obj.rec \ {k} |-> obj.rec[j]]]

\* JSON.parse(JSON.stringify(record)): properties whose value is undefined are dropped
JSONCloneRecord(rec) == [f \in {g \in DOMAIN rec : rec[g] # Undefined} |-> rec[f]]

\* JSON.parse(JSON.stringify(itemPositions))
JSONClone(obj) == [keys |-> obj.keys, rec |-> [id \in DOMAIN obj.rec |-> JSONCloneRecord(obj.rec[id])]]

\* Deep equality of two stores: the same keys with the same defined properties
\* (key order and undefined-valued properties do not count)
DeepEqual(a, b) == JSONClone(a).rec = JSONClone(b).rec

\* ------------------------------------------------------------------ state

VARIABLES
    heap,              \* address -> object; heap[0] is itemPositions
    positionHistory,   \* sequence of snapshot addresses
    historyIndex,      \* 0-based index into positionHistory, -1 when empty
    dom,               \* page index -> the page container's draggable items, in order
    draggedElement,    \* node id of the element being dragged, 0 for null
    dragOffset,        \* <<dragOffsetX, dragOffsetY>>
    selectedElementId, \* "" for null
    fileDragOver,      \* body carries the class file-drag-over
    dragPhase,         \* the browser's drag-and-drop operation: "none", "files", "dragging", "dropped"
    loadPc,            \* loadPositions: "fetch", "apply", "done"
    applyRuns,         \* suspended applyPositions calls
    uploads,           \* suspended handleFileDrop calls (awaiting POST /user)
    addItems,          \* suspended addNewItemToPage calls
    deletePending,     \* suspended handleKeyDown calls (awaiting POST /delete-file)
    saveRequests,      \* POST /save-positions bodies the server has not handled yet
    serverSettings,    \* user/settings.json on the server
    now,               \* Date.now()
    events             \* number of events the page has handled since it was opened

vars == <<heap, positionHistory, historyIndex, dom, draggedElement, dragOffset,
          selectedElementId, fileDragOver, dragPhase, loadPc, applyRuns, uploads,
          addItems, deletePending, saveRequests, serverSettings, now, events>>

itemPositions == 0

Store == heap[itemPositions]

\* positionHistory[i] of the code (0-based)
Snapshot(i) == heap[positionHistory[i + 1]]

\* The three module-level bindings the history functions work on
Machine == [heap |-> heap, positionHistory |-> positionHistory, historyIndex |-> historyIndex]

\* A freshly created object gets an address no live object has
NewAddress(m) == CHOOSE a \in 1..(Len(m.positionHistory) + 1) : a \notin Range(m.positionHistory)

\* Objects no binding refers to any more are collected
Collect(m) ==
    [m EXCEPT !.heap = [a \in {itemPositions} \cup Range(m.positionHistory) |-> m.heap[a]]]

\* The machine with the store replaced by (the contents) s
WithStore(m, s) == [m EXCEPT !.heap[itemPositions] = s]

\* ------------------------------------------------------------------ store

\* 1.0 in the unit opacities are counted in (hundredths)
OpacityOne == 100

\* An upsert that merges and cleans nothing up
updateItemPositionKeepDefaults(store, id, positionData) ==
    LET s0 == IF HasKey(store, id) THEN store
              ELSE SetKey(store, id, [left |-> Def("0px"), top |-> Def("0px")])
    IN  SetKey(s0, id, Spread(s0.rec[id], positionData))

updateItemPosition(store, id, positionData) ==
    LET s0 == IF HasKey(store, id) THEN store
              ELSE SetKey(store, id, [left |-> Def("0px"), top |-> Def("0px")])
        merged == Spread(s0.rec[id], positionData)
        r1 == IF Has(merged, "opacity") /\ Val(merged.opacity) >= OpacityOne
              THEN Delete(merged, "opacity") ELSE merged
        r2 == IF Has(r1, "rotation") /\ Val(r1.rotation) = 0
              THEN Delete(r1, "rotation") ELSE r1
    IN  SetKey(s0, id, r2)

deleteItemPosition(store, id) == DeleteKey(store, id)

clearItemPositions(store) == EmptyObject

getItemPosition(store, id) == IF HasKey(store, id) THEN Def(store.rec[id]) ELSE Undefined

\* ------------------------------------------------------- faulty variants

\* A record() that keeps the snapshots after historyIndex
addStateToHistoryKeepFuture(m) ==
    LET a == NewAddress(m)
        pushed == Append(m.positionHistory, a)
    IN  Collect([heap |-> (a :> JSONClone(m.heap[itemPositions])) @@ m.heap,
                 positionHistory |-> pushed,
                 historyIndex |-> m.historyIndex + 1])

\* A record() that evicts the oldest snapshot of a full stack and leaves the
\* index where the push put it
addStateToHistoryStaleIndex(m) ==
    LET a == NewAddress(m)
        sliced == IF m.historyIndex < Len(m.positionHistory) - 1
                  THEN SubSeq(m.positionHistory, 1, m.historyIndex + 1)
                  ELSE m.positionHistory
        pushed == Append(sliced, a)
    IN  Collect([heap |-> (a :> JSONClone(m.heap[itemPositions])) @@ m.heap,
                 positionHistory |-> IF Len(pushed) > 100 THEN Tail(pushed) ELSE pushed,
                 historyIndex |-> m.historyIndex + 1])

\* A record() that never evicts
addStateToHistoryUnbounded(m) ==
    LET a == NewAddress(m)
        sliced == IF m.historyIndex < Len(m.positionHistory) - 1
                  THEN SubSeq(m.positionHistory, 1, m.historyIndex + 1)
                  ELSE m.positionHistory
    IN  Collect([heap |-> (a :> JSONClone(m.heap[itemPositions])) @@ m.heap,
                 positionHistory |-> Append(sliced, a),
                 historyIndex |-> m.historyIndex + 1])

\* An undo() that steps the index down also when no snapshot precedes it
undoHistoryBelowFirst(m) ==
    IF m.historyIndex > 0
    THEN LET previousState == JSONClone(m.heap[m.positionHistory[m.historyIndex]])
         IN  [heap |-> [m.heap EXCEPT ![itemPositions] = previousState],
              positionHistory |-> m.positionHistory,
              historyIndex |-> m.historyIndex - 1,
              ret |-> Def(previousState)]
    ELSE [heap |-> m.heap, positionHistory |-> m.positionHistory,
          historyIndex |-> m.historyIndex - 1, ret |-> Undefined]

\* An undo() that moves the index and hands the snapshot over without
\* replacing the contents of the Store
undoHistoryNoRestore(m) ==
    IF m.historyIndex > 0
    THEN [heap |-> m.heap, positionHistory |-> m.positionHistory,
          historyIndex |-> m.historyIndex - 1,
          ret |-> Def(JSONClone(m.heap[m.positionHistory[m.historyIndex]]))]
    ELSE [heap |-> m.heap, positionHistory |-> m.positionHistory,
          historyIndex |-> m.historyIndex, ret |-> Undefined]

\* A redo() that restores the newest snapshot again when it is already there
redoHistoryAtEnd(m) ==
    IF m.historyIndex < Len(m.positionHistory) - 1
    THEN LET nextState == JSONClone(m.heap[m.positionHistory[m.historyIndex + 2]])
         IN  [heap |-> [m.heap EXCEPT ![itemPositions] = nextState],
              positionHistory |-> m.positionHistory,
              historyIndex |-> m.historyIndex + 1,
              ret |-> Def(nextState)]
    ELSE IF m.historyIndex >= 0
    THEN LET nextState == JSONClone(m.heap[m.positionHistory[m.historyIndex + 1]])
         IN  [heap |-> [m.heap EXCEPT ![itemPositions] = nextState],
              positionHistory |-> m.positionHistory,
              historyIndex |-> m.historyIndex,
              ret |-> Def(nextState)]
    ELSE [heap |-> m.heap, positionHistory |-> m.positionHistory,
          historyIndex |-> m.historyIndex, ret |-> Undefined]

\* An init() that pushes the object it is given instead of a copy of it
initializeHistoryAlias(m, initialState) ==
    Collect([heap |-> m.heap, positionHistory |-> <<initialState>>, historyIndex |-> 0])

\* ---------------------------------------------------------------- history

maxHistorySize == 100

addStateToHistory(m) ==
    LET a == NewAddress(m)
        currentState == JSONClone(m.heap[itemPositions])
        sliced == IF m.historyIndex < Len(m.positionHistory) - 1
                  THEN SubSeq(m.positionHistory, 1, m.historyIndex + 1)
                  ELSE m.positionHistory
        pushed == Append(sliced, a)
        index == m.historyIndex + 1
        over == Len(pushed) > maxHistorySize
    IN  Collect([heap |-> (a :> currentState) @@ m.heap,
                 positionHistory |-> IF over THEN Tail(pushed) ELSE pushed,
                 historyIndex |-> IF over THEN index - 1 ELSE index])

undoHistory(m) ==
    IF m.historyIndex > 0
    THEN LET index == m.historyIndex - 1
             previousState == JSONClone(m.heap[m.positionHistory[index + 1]])
         IN  [heap |-> [m.heap EXCEPT ![itemPositions] = previousState],
              positionHistory |-> m.positionHistory,
              historyIndex |-> index,
              ret |-> Def(previousState)]
    ELSE [heap |-> m.heap, positionHistory |-> m.positionHistory,
          historyIndex |-> m.historyIndex, ret |-> Undefined]

redoHistory(m) ==
    IF m.historyIndex < Len(m.positionHistory) - 1
    THEN LET index == m.historyIndex + 1
             nextState == JSONClone(m.heap[m.positionHistory[index + 1]])
         IN  [heap |-> [m.heap EXCEPT ![itemPositions] = nextState],
              positionHistory |-> m.positionHistory,
              historyIndex |-> index,
              ret |-> Def(nextState)]
    ELSE [heap |-> m.heap, positionHistory |-> m.positionHistory,
          historyIndex |-> m.historyIndex, ret |-> Undefined]

initializeHistory(m, initialState) ==
    LET a == NewAddress(m)
    IN  Collect([heap |-> (a :> JSONClone(m.heap[initialState])) @@ m.heap,
                 positionHistory |-> <<a>>,
                 historyIndex |-> 0])

\* ---------------------------------------------------------------------- DOM

\* The two page containers of the base document, page-0 and page-1
NumPages == 2

Pages == 0..(NumPages - 1)

\* offsetWidth and offsetHeight of a page container (14.8cm x 21cm)
PageWidth == 559
PageHeight == 794

\* getBoundingClientRect() of a page container: the pages are stacked vertically
PageOrigin(p) == IF p = 0 THEN <<8, 8>> ELSE <<8, 840>>

\* The page container under a viewport point, -1 when there is none
PageAt(pt) ==
    LET over == {p \in Pages : /\ pt[1] >= PageOrigin(p)[1]
                               /\ pt[1] < PageOrigin(p)[1] + PageWidth
                               /\ pt[2] >= PageOrigin(p)[2]
                               /\ pt[2] < PageOrigin(p)[2] + PageHeight}
    IN  IF over = {} THEN -1 ELSE CHOOSE p \in over : TRUE

\* The lengths parseFloat is asked for
CoordRange == -50..900

PxTable == [n \in CoordRange |-> Px(n)]

\* parseFloat("<n>px")
ParsePx(str) == CHOOSE n \in CoordRange : PxTable[n] = str

\* Document order
AllNodes(d) == d[0] \o d[1]

NodeIds(d) == {n.nid : n \in Range(AllNodes(d))}

\* document.getElementById(id): node id of the first element carrying the id, 0 for null
getElementById(d, id) ==
    LET hits == SelectSeq(AllNodes(d), LAMBDA n : n.id = id)
    IN  IF hits = <<>> THEN 0 ELSE hits[1].nid

InDocument(d, nid) == nid \in NodeIds(d)

NodeOf(d, nid) == CHOOSE n \in Range(AllNodes(d)) : n.nid = nid

\* element.closest('.page-container'): index of the page, -1 for null
ClosestPage(d, nid) ==
    IF InDocument(d, nid) THEN CHOOSE p \in Pages : nid \in {n.nid : n \in Range(d[p])} ELSE -1

\* parseInt(page.id.split('-')[1] || '0', 10)
PageIndexOf(p) == p

\* page.appendChild(node): the node leaves its parent and becomes the last child
appendChild(d, p, node) ==
    [q \in Pages |->
        LET rest == SelectSeq(d[q], LAMBDA n : n.nid # node.nid)
        IN  IF q = p THEN Append(rest, node) ELSE rest]

\* element.remove()
removeNode(d, nid) == [q \in Pages |-> SelectSeq(d[q], LAMBDA n : n.nid # nid)]

\* An element of the document with its properties replaced
ReplaceNode(d, node) ==
    [q \in Pages |-> [i \in DOMAIN d[q] |-> IF d[q][i].nid = node.nid THEN node ELSE d[q][i]]]

\* The node id document.createElement gets
NewNodeId(d, dragged) ==
    CHOOSE k \in 1..(Cardinality(NodeIds(d)) + 2) : k \notin NodeIds(d) \cup {dragged}

\* document.createElement('div') set up as a draggable item
createItem(nid, id, filename, parser) ==
    [nid |-> nid, id |-> id, filename |-> filename, parser |-> parser,
     left |-> "", top |-> "", width |-> "", height |-> "", opacity |-> "", transform |-> ""]

\* ------------------------------------------------------------------ numbers

\* String(x) of a non-negative number x given in hundredths: 95 -> "0.95", 90 -> "0.9"
NumStr(h) ==
    LET ip == h \div 100
        fr == h % 100
    IN  IF fr = 0 THEN ToString(ip)
        ELSE IF fr % 10 = 0 THEN ToString(ip) \o "." \o ToString(fr \div 10)
        ELSE IF fr < 10 THEN ToString(ip) \o ".0" \o ToString(fr)
        ELSE ToString(ip) \o "." \o ToString(fr)

\* The numbers (in hundredths) parseFloat is asked for
NumRange == 0..200

NumTable == [h \in NumRange |-> NumStr(h)]

\* parseFloat of a string String(x) produced, in hundredths
ParseNum(str) == CHOOSE h \in NumRange : NumTable[h] = str

\* rec.f || fallback, for a string property and for a number property
StrOr(rec, f, fallback) == IF Has(rec, f) /\ Val(rec[f]) # "" THEN Val(rec[f]) ELSE fallback

NumOr(rec, f, fallback) == IF Has(rec, f) /\ Val(rec[f]) # 0 THEN Val(rec[f]) ELSE fallback

\* !rec.f, for a string property
Falsy(rec, f) == ~Has(rec, f) \/ Val(rec[f]) = ""

\* `rotate(${rotation}deg) scale(${scale})`
Transform(rotation, scale) == "rotate(" \o ToString(rotation) \o "deg) scale(" \o scale \o ")"

\* --------------------------------------------------------------- persistence

\* One element of positionsToSave, as JSON.stringify writes it
SavedPositionData(id, posData) ==
    LET d1 == IF Has(posData, "opacity") /\ Val(posData.opacity) >= OpacityOne
              THEN Delete(posData, "opacity") ELSE posData
        d2 == IF Has(d1, "rotation") /\ Val(d1.rotation) = 0 THEN Delete(d1, "rotation") ELSE d1
        d3 == IF Has(d2, "scale") /\ Val(d2.scale) = "1" THEN Delete(d2, "scale") ELSE d2
        d4 == IF Falsy(d3, "filepath") THEN Spread(d3, [id |-> Def(id)]) ELSE d3
    IN  JSONCloneRecord(d4)

\* The body savePositions posts: { objects: positionsToSave }
positionsToSave(store) ==
    [objects |-> [i \in DOMAIN store.keys |->
                    Def(SavedPositionData(store.keys[i], store.rec[store.keys[i]]))]]

\* ------------------------------------------------------------- client state

\* Everything the page's scripts hold, as one value the handlers transform
Client ==
    [heap |-> heap, positionHistory |-> positionHistory, historyIndex |-> historyIndex,
     dom |-> dom, draggedElement |-> draggedElement, dragOffset |-> dragOffset,
     selectedElementId |-> selectedElementId, fileDragOver |-> fileDragOver,
     loadPc |-> loadPc, applyRuns |-> applyRuns, uploads |-> uploads,
     addItems |-> addItems, deletePending |-> deletePending,
     saveRequests |-> saveRequests, now |-> now, toast |-> ""]

\* showToast(message): toast is the notification the handler that runs has
\* shown last, "" while it has shown none
showToast(c, message) == [c EXCEPT !.toast = message]

Become(c) ==
    /\ heap' = c.heap
    /\ positionHistory' = c.positionHistory
    /\ historyIndex' = c.historyIndex
    /\ dom' = c.dom
    /\ draggedElement' = c.draggedElement
    /\ dragOffset' = c.dragOffset
    /\ selectedElementId' = c.selectedElementId
    /\ fileDragOver' = c.fileDragOver
    /\ loadPc' = c.loadPc
    /\ applyRuns' = c.applyRuns
    /\ uploads' = c.uploads
    /\ addItems' = c.addItems
    /\ deletePending' = c.deletePending
    /\ saveRequests' = c.saveRequests
    /\ now' = c.now

MachineOf(c) ==
    [heap |-> c.heap, positionHistory |-> c.positionHistory, historyIndex |-> c.historyIndex]

WithMachine(c, m) ==
    [c EXCEPT !.heap = m.heap, !.positionHistory = m.positionHistory,
              !.historyIndex = m.historyIndex]

StoreOf(c) == c.heap[itemPositions]

SetStore(c, s) == [c EXCEPT !.heap[itemPositions] = s]

\* savePositions(): the request is issued, its completion only logs
savePositions(c) == [c EXCEPT !.saveRequests = Append(@, positionsToSave(StoreOf(c)))]

\* The .catch of savePositions: the error is written to the console
savePositionsCatch(c) == c

updateAndSavePositions(c) == savePositions(WithMachine(c, addStateToHistory(MachineOf(c))))

\* ---------------------------------------------------------------- files

\* The files a user drops
FileNames == {"song.txt", "pic.png"}

\* path in the reply of POST /user
UserPath(filename) == "/user/" \o filename

\* filepath.split('/').pop()
Basename(filepath) == CHOOSE f \in FileNames : UserPath(f) = filepath

\* sanitizeFilename: extension removed, other characters replaced, lower case
sanitizeFilename(filename) ==
    CASE filename = "song.txt" -> "song"
      [] filename = "pic.png" -> "pic"

\* getItemId: the names dropped here hold no character it replaces
getItemId(filename, timestamp) == filename \o "_" \o ToString(timestamp)

\* ['png', 'jpg', ...].includes(extension)
IsImageName(filename) == filename = "pic.png"

\* findParser(filename, content).name
ParserName(filename) == IF IsImageName(filename) THEN "image" ELSE "chord"

\* What parseContent resolves to: the image parser reports the natural size,
\* the chord parser none
parseContent(filename) ==
    IF IsImageName(filename)
    THEN [parserName |-> "image", width |-> Def(40), height |-> Def(30)]
    ELSE [parserName |-> "chord", width |-> Undefined, height |-> Undefined]

\* offsetHeight of a rendered item: its style height, else the height of its content
OffsetHeight(node) ==
    IF node.height # "" THEN ParsePx(node.height)
    ELSE IF IsImageName(node.filename) THEN 30 ELSE 120

\* --------------------------------------------------------------- reconciler

\* The styling part of applyPositions for one element and its record
PlaceAndStyle(d, node, pos) ==
    LET targetPageIndex == IF Has(pos, "pageIndex") THEN Val(pos.pageIndex) ELSE 0
        targetPage == IF targetPageIndex \in Pages THEN targetPageIndex ELSE 0
        styled == [node EXCEPT
                     !.left = IF Has(pos, "left") THEN Val(pos.left) ELSE @,
                     !.top = IF Has(pos, "top") THEN Val(pos.top) ELSE @,
                     !.width = IF Has(pos, "width") THEN Val(pos.width) ELSE "",
                     !.height = IF Has(pos, "height") THEN Val(pos.height) ELSE "",
                     !.opacity = IF Has(pos, "opacity") THEN NumStr(Val(pos.opacity)) ELSE "",
                     !.transform = Transform(NumOr(pos, "rotation", 0), StrOr(pos, "scale", "1"))]
    IN  IF InDocument(d, node.nid) /\ ClosestPage(d, node.nid) = targetPage
        THEN ReplaceNode(d, styled)
        ELSE appendChild(d, targetPage, styled)

\* loadPositions after `await applyPositions()`
LoadFinish(c) ==
    [WithMachine(c, initializeHistory(MachineOf(c), itemPositions)) EXCEPT !.loadPc = "done"]

\* applyPositions from the i-th id on, up to its next await or its end
RECURSIVE ApplyFrom(_, _, _, _)
ApplyFrom(c, itemIds, i, forLoad) ==
    IF i > Len(itemIds)
    THEN IF forLoad THEN LoadFinish(c) ELSE c
    ELSE LET id == itemIds[i]
             element == getElementById(c.dom, id)
         IN  IF ~HasKey(StoreOf(c), id)
             THEN ApplyFrom(c, itemIds, i + 1, forLoad)
             ELSE LET pos == StoreOf(c).rec[id]
                  IN  IF element = 0 /\ ~Falsy(pos, "parser") /\ ~Falsy(pos, "filepath")
                      THEN [c EXCEPT !.applyRuns =
                                Append(@, [itemIds |-> itemIds, i |-> i, pos |-> pos,
                                           forLoad |-> forLoad])]
                      ELSE IF element = 0
                      THEN ApplyFrom(c, itemIds, i + 1, forLoad)
                      ELSE ApplyFrom([c EXCEPT !.dom = PlaceAndStyle(c.dom, NodeOf(c.dom, element), pos)],
                                     itemIds, i + 1, forLoad)

applyPositions(c, forLoad) == ApplyFrom(c, StoreOf(c).keys, 1, forLoad)

RemoveAt(seq, k) == [j \in 1..(Len(seq) - 1) |-> IF j < k THEN seq[j] ELSE seq[j + 1]]

\* An applyPositions that removes the record of an item it could not create
applyPositionsResumeForgetting(c, k, ok) ==
    LET run == c.applyRuns[k]
        c1 == [c EXCEPT !.applyRuns = RemoveAt(@, k)]
        filename == Basename(Val(run.pos.filepath))
        element == createItem(NewNodeId(c.dom, c.draggedElement), run.itemIds[run.i],
                              filename, Val(run.pos.parser))
        c2 == IF ok THEN [c1 EXCEPT !.dom = PlaceAndStyle(c1.dom, element, run.pos)]
              ELSE SetStore(c1, deleteItemPosition(StoreOf(c1), run.itemIds[run.i]))
    IN  ApplyFrom(c2, run.itemIds, run.i + 1, run.forLoad)

\* An applyPositions that a failed fetch or parse ends: the error is not caught
\* and the items after the one that failed are not looked at
applyPositionsResumeAborting(c, k, ok) ==
    LET run == c.applyRuns[k]
        c1 == [c EXCEPT !.applyRuns = RemoveAt(@, k)]
        filename == Basename(Val(run.pos.filepath))
        element == createItem(NewNodeId(c.dom, c.draggedElement), run.itemIds[run.i],
                              filename, Val(run.pos.parser))
    IN  IF ok THEN ApplyFrom([c1 EXCEPT !.dom = PlaceAndStyle(c1.dom, element, run.pos)],
                             run.itemIds, run.i + 1, run.forLoad)
        ELSE c1

\* applyPositions resumed after the fetch and the parse of the element it creates
applyPositionsResume(c, k, ok) ==
    LET run == c.applyRuns[k]
        c1 == [c EXCEPT !.applyRuns = RemoveAt(@, k)]
        filename == Basename(Val(run.pos.filepath))
        element == createItem(NewNodeId(c.dom, c.draggedElement), run.itemIds[run.i],
                              filename, Val(run.pos.parser))
        c2 == IF ok THEN [c1 EXCEPT !.dom = PlaceAndStyle(c1.dom, element, run.pos)] ELSE c1
    IN  ApplyFrom(c2, run.itemIds, run.i + 1, run.forLoad)

\* applyPositions run to its end: every fetch and parse the run k awaits ends at
\* once, with the outcome ok gives for the id of the item
RECURSIVE applyPositionsComplete(_, _, _)
applyPositionsComplete(c, k, ok) ==
    IF k > Len(c.applyRuns) THEN c
    ELSE applyPositionsComplete(
             applyPositionsResume(c, k, ok[c.applyRuns[k].itemIds[c.applyRuns[k].i]]), k, ok)

applyPositionsToEnd(c, ok) ==
    applyPositionsComplete(applyPositions(c, FALSE), Len(c.applyRuns) + 1, ok)

\* ------------------------------------------------------- default arrangement

padding == 20
defaultItemHeight == 100

\* No space between an item and the next one below it
itemSpacingNone == padding - padding

itemSpacing == 15

\* `${n}px` for a length given in half pixels (the column width is not whole)
Px2(n2) == IF n2 % 2 = 0 THEN Px(n2 \div 2) ELSE ToString(n2 \div 2) \o ".5px"

\* (containerWidth - 3 * padding) / 2, in half pixels
columnWidth2 == PageWidth - 3 * padding

\* An arrangement that goes on to the page after the last one
RECURSIVE ArrangeFromNoLastPage(_, _, _, _)
ArrangeFromNoLastPage(c, allItems, i, cur) ==
    IF i > Len(allItems) THEN c
    ELSE LET element == NodeOf(c.dom, allItems[i])
             elementId == element.id
         IN  IF elementId = "" THEN ArrangeFromNoLastPage(c, allItems, i + 1, cur)
             ELSE IF ~HasKey(StoreOf(c), elementId)
             THEN LET elementHeight == IF OffsetHeight(element) # 0 THEN OffsetHeight(element)
                                       ELSE defaultItemHeight
                      nextColumn == cur.top + elementHeight > PageHeight - padding
                      nextPage == nextColumn /\ cur.left2 + 2 * columnWidth2 + 2 * padding
                                                    > 2 * (PageWidth - padding)
                      outOfPages == FALSE
                      page == IF outOfPages THEN NumPages - 1
                              ELSE IF nextPage THEN cur.page + 1 ELSE cur.page
                      left2 == IF outOfPages THEN 2 * padding + columnWidth2 + 2 * padding
                               ELSE IF nextPage THEN 2 * padding
                               ELSE IF nextColumn THEN cur.left2 + columnWidth2 + 2 * padding
                               ELSE cur.left2
                      top == IF nextColumn THEN padding ELSE cur.top
                      finalLeft == Px2(left2)
                      finalTop == Px(top)
                      placed == [element EXCEPT !.left = finalLeft, !.top = finalTop]
                      d1 == IF ClosestPage(c.dom, element.nid) # page
                            THEN appendChild(c.dom, page, placed)
                            ELSE ReplaceNode(c.dom, placed)
                      s1 == updateItemPosition(StoreOf(c), elementId,
                                [left |-> Def(finalLeft), top |-> Def(finalTop),
                                 pageIndex |-> Def(page)])
                  IN  ArrangeFromNoLastPage(SetStore([c EXCEPT !.dom = d1], s1), allItems, i + 1,
                                  [top |-> top + elementHeight + itemSpacing,
                                   left2 |-> left2, page |-> page])
             ELSE LET pos == StoreOf(c).rec[elementId]
                      targetPageIndex == IF Has(pos, "pageIndex") THEN Val(pos.pageIndex) ELSE 0
                      d1 == IF targetPageIndex \in Pages
                               /\ ClosestPage(c.dom, element.nid) # targetPageIndex
                            THEN appendChild(c.dom, targetPageIndex, element)
                            ELSE c.dom
                  IN  ArrangeFromNoLastPage([c EXCEPT !.dom = d1], allItems, i + 1, cur)

\* The forEach of initializeDefaultPositions from the i-th item on; cur holds
\* currentTop, currentLeft (in half pixels) and currentPageIndex
RECURSIVE ArrangeFrom(_, _, _, _)
ArrangeFrom(c, allItems, i, cur) ==
    IF i > Len(allItems) THEN c
    ELSE LET element == NodeOf(c.dom, allItems[i])
             elementId == element.id
         IN  IF elementId = "" THEN ArrangeFrom(c, allItems, i + 1, cur)
             ELSE IF ~HasKey(StoreOf(c), elementId)
             THEN LET elementHeight == IF OffsetHeight(element) # 0 THEN OffsetHeight(element)
                                       ELSE defaultItemHeight
                      nextColumn == cur.top + elementHeight > PageHeight - padding
                      nextPage == nextColumn /\ cur.left2 + 2 * columnWidth2 + 2 * padding
                                                    > 2 * (PageWidth - padding)
                      outOfPages == nextPage /\ ~(cur.page + 1 < NumPages)
                      page == IF outOfPages THEN NumPages - 1
                              ELSE IF nextPage THEN cur.page + 1 ELSE cur.page
                      left2 == IF outOfPages THEN 2 * padding + columnWidth2 + 2 * padding
                               ELSE IF nextPage THEN 2 * padding
                               ELSE IF nextColumn THEN cur.left2 + columnWidth2 + 2 * padding
                               ELSE cur.left2
                      top == IF nextColumn THEN padding ELSE cur.top
                      finalLeft == Px2(left2)
                      finalTop == Px(top)
                      placed == [element EXCEPT !.left = finalLeft, !.top = finalTop]
                      d1 == IF ClosestPage(c.dom, element.nid) # page
                            THEN appendChild(c.dom, page, placed)
                            ELSE ReplaceNode(c.dom, placed)
                      s1 == updateItemPosition(StoreOf(c), elementId,
                                [left |-> Def(finalLeft), top |-> Def(finalTop),
                                 pageIndex |-> Def(page)])
                  IN  ArrangeFrom(SetStore([c EXCEPT !.dom = d1], s1), allItems, i + 1,
                                  [top |-> top + elementHeight + itemSpacing,
                                   left2 |-> left2, page |-> page])
             ELSE LET pos == StoreOf(c).rec[elementId]
                      targetPageIndex == IF Has(pos, "pageIndex") THEN Val(pos.pageIndex) ELSE 0
                      d1 == IF targetPageIndex \in Pages
                               /\ ClosestPage(c.dom, element.nid) # targetPageIndex
                            THEN appendChild(c.dom, targetPageIndex, element)
                            ELSE c.dom
                  IN  ArrangeFrom([c EXCEPT !.dom = d1], allItems, i + 1, cur)

\* A default arrangement that leaves the history as it finds it
initializeDefaultPositionsNoHistory(c) ==
    LET allItems == [j \in DOMAIN AllNodes(c.dom) |-> AllNodes(c.dom)[j].nid]
    IN  ArrangeFrom(c, allItems, 1, [top |-> padding, left2 |-> 2 * padding, page |-> 0])

\* A default arrangement that saves what it arranged
initializeDefaultPositionsSaving(c) ==
    LET allItems == [j \in DOMAIN AllNodes(c.dom) |-> AllNodes(c.dom)[j].nid]
        arranged == ArrangeFrom(c, allItems, 1,
                                [top |-> padding, left2 |-> 2 * padding, page |-> 0])
    IN  savePositions(WithMachine(arranged, initializeHistory(MachineOf(arranged), itemPositions)))

initializeDefaultPositions(c) ==
    LET allItems == [j \in DOMAIN AllNodes(c.dom) |-> AllNodes(c.dom)[j].nid]
        arranged == ArrangeFrom(c, allItems, 1,
                                [top |-> padding, left2 |-> 2 * padding, page |-> 0])
    IN  WithMachine(arranged, initializeHistory(MachineOf(arranged), itemPositions))

\* ---------------------------------------------------------------------- load

\* The forEach of loadPositions over the loaded array from the i-th entry on:
\* the store it leaves, and whether an entry made it throw
RECURSIVE PopulateFrom(_, _, _)
PopulateFrom(store, loaded, i) ==
    IF i > Len(loaded) THEN [store |-> store, threw |-> FALSE]
    ELSE IF loaded[i] = Undefined THEN [store |-> store, threw |-> TRUE]
    ELSE LET itemData == Val(loaded[i])
         IN  IF Falsy(itemData, "filepath") /\ Falsy(itemData, "id")
             THEN PopulateFrom(store, loaded, i + 1)
             ELSE LET itemId == IF ~Falsy(itemData, "id") THEN Val(itemData.id)
                                ELSE sanitizeFilename(Basename(Val(itemData.filepath)))
                  IN  PopulateFrom(SetKey(store, itemId, itemData), loaded, i + 1)

\* A loadPositions that initializes the history before it applies the positions
loadPositionsResumeInitFirst(c, failed, settings) ==
    LET done == [c EXCEPT !.loadPc = "done"]
    IN  IF failed THEN initializeDefaultPositions(done)
        ELSE IF settings = Undefined THEN initializeDefaultPositions(done)
        ELSE IF ~Val(settings).readable THEN initializeDefaultPositions(done)
        ELSE LET populated == PopulateFrom(EmptyObject, Val(settings).objects, 1)
                 filled == SetStore([c EXCEPT !.loadPc = "apply"], populated.store)
             IN  IF populated.threw
                 THEN initializeDefaultPositions(SetStore(done, populated.store))
                 ELSE applyPositions(
                          WithMachine(filled, initializeHistory(MachineOf(filled), itemPositions)),
                          TRUE)

\* loadPositions from the reply to GET /load-positions on.  failed: the request
\* was rejected or answered with an error status other than 404; settings: the
\* file the server read, Undefined when there is none (404)
loadPositionsResume(c, failed, settings) ==
    LET done == [c EXCEPT !.loadPc = "done"]
    IN  IF failed THEN initializeDefaultPositions(done)
        ELSE IF settings = Undefined THEN initializeDefaultPositions(done)
        ELSE IF ~Val(settings).readable THEN initializeDefaultPositions(done)
        ELSE LET cleared == clearItemPositions(StoreOf(c))
                 populated == PopulateFrom(cleared, Val(settings).objects, 1)
             IN  IF populated.threw
                 THEN initializeDefaultPositions(SetStore(done, populated.store))
                 ELSE applyPositions(SetStore([c EXCEPT !.loadPc = "apply"], populated.store),
                                     TRUE)

\* ----------------------------------------------------------------- gestures

handleClick(c, target) ==
    IF target # 0 THEN [c EXCEPT !.selectedElementId = NodeOf(c.dom, target).id]
    ELSE [c EXCEPT !.selectedElementId = ""]

\* A handleKeyDown that asks the server to delete the file whatever the answer
\* to confirm() was
handleKeyDownDeletesFile(c, removeFromFileSystem) ==
    LET elementToRemove == getElementById(c.dom, c.selectedElementId)
        pos == getItemPosition(StoreOf(c), c.selectedElementId)
        itemFilepath == pos # Undefined /\ ~Falsy(Val(pos), "filepath")
        removed == [c EXCEPT !.dom = removeNode(c.dom, elementToRemove)]
        deleted == SetStore(removed, deleteItemPosition(StoreOf(removed), c.selectedElementId))
        saved == showToast(savePositions(deleted), "removed from layout")
    IN  IF c.selectedElementId = "" \/ elementToRemove = 0 THEN c
        ELSE IF itemFilepath
        THEN [saved EXCEPT !.deletePending = @ + 1]
        ELSE [saved EXCEPT !.selectedElementId = ""]

\* handleKeyDown for Delete or Backspace, up to the request to /delete-file;
\* removeFromFileSystem is the answer to confirm()
handleKeyDown(c, removeFromFileSystem) ==
    LET elementToRemove == getElementById(c.dom, c.selectedElementId)
        pos == getItemPosition(StoreOf(c), c.selectedElementId)
        itemFilepath == pos # Undefined /\ ~Falsy(Val(pos), "filepath")
        removed == [c EXCEPT !.dom = removeNode(c.dom, elementToRemove)]
        deleted == SetStore(removed, deleteItemPosition(StoreOf(removed), c.selectedElementId))
        saved == showToast(savePositions(deleted), "removed from layout")
    IN  IF c.selectedElementId = "" \/ elementToRemove = 0 THEN c
        ELSE IF removeFromFileSystem /\ itemFilepath
        THEN [saved EXCEPT !.deletePending = @ + 1]
        ELSE [saved EXCEPT !.selectedElementId = ""]

\* handleKeyDown after the reply to /delete-file; ok: the file was deleted
handleKeyDownResume(c, ok) ==
    showToast([c EXCEPT !.deletePending = @ - 1, !.selectedElementId = ""],
              IF ok THEN "deleted from filesystem" ELSE "Error deleting file")

\* A handleUndoRedoKeys that applies and saves whether or not a snapshot was
\* restored
handleUndoRedoKeysAlways(c, key) ==
    LET restored == IF key = "z" THEN undoHistory(MachineOf(c)) ELSE redoHistory(MachineOf(c))
    IN  savePositions(applyPositions(WithMachine(c, restored), FALSE))

\* handleUndoRedoKeys for Ctrl+Z (key "z") and Ctrl+Y (key "y")
handleUndoRedoKeys(c, key) ==
    LET restored == IF key = "z" THEN undoHistory(MachineOf(c)) ELSE redoHistory(MachineOf(c))
    IN  IF restored.ret # Undefined
        THEN savePositions(applyPositions(WithMachine(c, restored), FALSE))
        ELSE WithMachine(c, restored)

opacityStep == 5
scaleStep == 5
rotateStep == 5
\* Math.max(0.1, currentScale), in hundredths
minScale == 10

Max(a, b) == IF a > b THEN a ELSE b
Min(a, b) == IF a < b THEN a ELSE b

\* handleWheelTransform over the item target; up: event.deltaY < 0
handleWheelTransform(c, target, modifier, up) ==
    LET targetItem == NodeOf(c.dom, target)
        itemId == targetItem.id
        pageIndex == PageIndexOf(ClosestPage(c.dom, target))
        s1 == IF HasKey(StoreOf(c), itemId) THEN StoreOf(c)
              ELSE updateItemPosition(StoreOf(c), itemId,
                       [left |-> Def(IF targetItem.left # "" THEN targetItem.left ELSE "0px"),
                        top |-> Def(IF targetItem.top # "" THEN targetItem.top ELSE "0px"),
                        pageIndex |-> Def(pageIndex)])
        currentPosition == s1.rec[itemId]
        \* shift: opacity
        currentOpacity == IF targetItem.opacity # "" THEN ParseNum(targetItem.opacity)
                          ELSE OpacityOne
        newOpacity == Max(0, Min(OpacityOne, currentOpacity
                                     + (IF up THEN opacityStep ELSE -opacityStep)))
        \* ctrl: scale
        newScale == Max(minScale, ParseNum(StrOr(currentPosition, "scale", "1"))
                                      + (IF up THEN scaleStep ELSE -scaleStep))
        newScaleStr == NumStr(newScale)
        \* alt: rotation
        newRotation == NumOr(currentPosition, "rotation", 0)
                           + (IF up THEN rotateStep ELSE -rotateStep)
        styled ==
            CASE modifier = "shift" ->
                   [targetItem EXCEPT !.opacity = IF newOpacity < OpacityOne
                                                  THEN NumStr(newOpacity) ELSE ""]
              [] modifier = "ctrl" ->
                   [targetItem EXCEPT !.transform =
                        Transform(NumOr(currentPosition, "rotation", 0), newScaleStr)]
              [] modifier = "alt" ->
                   [targetItem EXCEPT !.transform =
                        Transform(newRotation, StrOr(currentPosition, "scale", "1"))]
              [] OTHER -> targetItem
        changed ==
            CASE modifier = "shift" ->
                   [opacity |-> IF newOpacity < OpacityOne THEN Def(newOpacity) ELSE Undefined]
              [] modifier = "ctrl" ->
                   [scale |-> IF newScaleStr # "1" THEN Def(newScaleStr) ELSE Undefined]
              [] modifier = "alt" ->
                   [rotation |-> IF newRotation # 0 THEN Def(newRotation) ELSE Undefined]
              [] OTHER -> [k \in {} |-> Undefined]
        updatedPositionData ==
            Spread(changed, [left |-> Def(targetItem.left), top |-> Def(targetItem.top),
                             pageIndex |-> Def(pageIndex)])
        c1 == SetStore([c EXCEPT !.dom = ReplaceNode(c.dom, styled)], s1)
    IN  IF itemId = "" THEN c
        ELSE IF modifier \in {"shift", "ctrl", "alt"}
        THEN showToast(updateAndSavePositions(
                           SetStore(c1, updateItemPosition(s1, itemId, updatedPositionData))),
                       CASE modifier = "shift" -> "Opacity"
                         [] modifier = "ctrl" -> "Scale"
                         [] OTHER -> "Rotation")
        ELSE c1

\* handleDragStart on the item target with the pointer at client
handleDragStart(c, target, client) ==
    LET pageContainer == ClosestPage(c.dom, target)
        containerRect == PageOrigin(pageContainer)
        element == NodeOf(c.dom, target)
        elementViewportX == containerRect[1] + ParsePx(element.left)
        elementViewportY == containerRect[2] + ParsePx(element.top)
    IN  [c EXCEPT !.draggedElement = target,
                  !.dragOffset = <<client[1] - elementViewportX, client[2] - elementViewportY>>]

\* A handleDragOver that writes every intermediate position to the Store,
\* records it and saves it
handleDragOverSaving(c, client) ==
    LET currentTargetPage == PageAt(client)
        originalPage == ClosestPage(c.dom, c.draggedElement)
        pageContainer == IF currentTargetPage # -1 THEN currentTargetPage ELSE originalPage
        containerRect == PageOrigin(pageContainer)
        newLeft == client[1] - containerRect[1] - c.dragOffset[1]
        newTop == client[2] - containerRect[2] - c.dragOffset[2]
        moved == [NodeOf(c.dom, c.draggedElement) EXCEPT !.left = Px(newLeft), !.top = Px(newTop)]
        d1 == IF pageContainer # originalPage
              THEN appendChild(c.dom, pageContainer, moved)
              ELSE ReplaceNode(c.dom, moved)
        s1 == updateItemPosition(StoreOf(c), moved.id,
                  [left |-> Def(moved.left), top |-> Def(moved.top),
                   pageIndex |-> Def(PageIndexOf(pageContainer))])
    IN  IF c.draggedElement = 0 \/ ~InDocument(c.dom, c.draggedElement) THEN c
        ELSE updateAndSavePositions(SetStore([c EXCEPT !.dom = d1], s1))

\* handleDragOver with the pointer at client.  A dragged element that has left
\* the document is left alone.
handleDragOver(c, client) ==
    LET currentTargetPage == PageAt(client)
        originalPage == ClosestPage(c.dom, c.draggedElement)
        pageContainer == IF currentTargetPage # -1 THEN currentTargetPage ELSE originalPage
        containerRect == PageOrigin(pageContainer)
        newLeft == client[1] - containerRect[1] - c.dragOffset[1]
        newTop == client[2] - containerRect[2] - c.dragOffset[2]
        moved == [NodeOf(c.dom, c.draggedElement) EXCEPT !.left = Px(newLeft), !.top = Px(newTop)]
    IN  IF c.draggedElement = 0 \/ ~InDocument(c.dom, c.draggedElement) THEN c
        ELSE IF pageContainer # originalPage
        THEN [c EXCEPT !.dom = appendChild(c.dom, pageContainer, moved)]
        ELSE [c EXCEPT !.dom = ReplaceNode(c.dom, moved)]

\* A handleDrop that passes no opacity on to the upsert
handleDropDropsOpacity(c, client) ==
    LET dropTargetContainer == PageAt(client)
        originalContainer == ClosestPage(c.dom, c.draggedElement)
        pageContainer == IF dropTargetContainer # -1 THEN dropTargetContainer
                         ELSE originalContainer
        containerRect == PageOrigin(pageContainer)
        finalLeftPx == Px(client[1] - containerRect[1] - c.dragOffset[1])
        finalTopPx == Px(client[2] - containerRect[2] - c.dragOffset[2])
        dropped == [NodeOf(c.dom, c.draggedElement) EXCEPT !.left = finalLeftPx, !.top = finalTopPx]
        d1 == IF pageContainer # originalContainer
              THEN appendChild(c.dom, pageContainer, dropped)
              ELSE ReplaceNode(c.dom, dropped)
        itemId == dropped.id
        existingPosition == getItemPosition(StoreOf(c), itemId)
        existing(f) == IF existingPosition # Undefined /\ f \in DOMAIN Val(existingPosition)
                       THEN Val(existingPosition)[f] ELSE Undefined
        s1 == updateItemPosition(StoreOf(c), itemId,
                  [left |-> Def(finalLeftPx), top |-> Def(finalTopPx),
                   pageIndex |-> Def(PageIndexOf(pageContainer)),
                   width |-> existing("width"), opacity |-> Undefined,
                   rotation |-> existing("rotation")])
    IN  IF c.draggedElement = 0 \/ ~InDocument(c.dom, c.draggedElement) THEN c
        ELSE updateAndSavePositions(SetStore([c EXCEPT !.dom = d1], s1))

\* handleDrop with the pointer at client
handleDrop(c, client) ==
    LET dropTargetContainer == PageAt(client)
        originalContainer == ClosestPage(c.dom, c.draggedElement)
        pageContainer == IF dropTargetContainer # -1 THEN dropTargetContainer
                         ELSE originalContainer
        containerRect == PageOrigin(pageContainer)
        finalLeftPx == Px(client[1] - containerRect[1] - c.dragOffset[1])
        finalTopPx == Px(client[2] - containerRect[2] - c.dragOffset[2])
        dropped == [NodeOf(c.dom, c.draggedElement) EXCEPT !.left = finalLeftPx, !.top = finalTopPx]
        d1 == IF pageContainer # originalContainer
              THEN appendChild(c.dom, pageContainer, dropped)
              ELSE ReplaceNode(c.dom, dropped)
        itemId == dropped.id
        existingPosition == getItemPosition(StoreOf(c), itemId)
        existing(f) == IF existingPosition # Undefined /\ f \in DOMAIN Val(existingPosition)
                       THEN Val(existingPosition)[f] ELSE Undefined
        s1 == updateItemPosition(StoreOf(c), itemId,
                  [left |-> Def(finalLeftPx), top |-> Def(finalTopPx),
                   pageIndex |-> Def(PageIndexOf(pageContainer)),
                   width |-> existing("width"), opacity |-> existing("opacity"),
                   rotation |-> existing("rotation")])
    IN  IF c.draggedElement = 0 \/ ~InDocument(c.dom, c.draggedElement) THEN c
        ELSE updateAndSavePositions(SetStore([c EXCEPT !.dom = d1], s1))

handleDragEnd(c) == [c EXCEPT !.draggedElement = 0]

\* ---------------------------------------------------------------- file drop

handleFileDragOver(c) == IF c.draggedElement = 0 THEN [c EXCEPT !.fileDragOver = TRUE] ELSE c

handleFileDragLeave(c) == [c EXCEPT !.fileDragOver = FALSE]

\* A handleFileDrop that does not look at draggedElement
handleFileDropUngated(c, client, files) ==
    IF files = <<>> THEN [c EXCEPT !.fileDragOver = FALSE]
    ELSE [c EXCEPT !.fileDragOver = FALSE,
                   !.uploads = Append(@, [files |-> files, client |-> client])]

\* handleFileDrop up to the upload of the first file
handleFileDrop(c, client, files) ==
    LET c1 == [c EXCEPT !.fileDragOver = FALSE]
    IN  IF c.draggedElement # 0 THEN c1
        ELSE IF files = <<>> THEN c1
        ELSE showToast([c1 EXCEPT !.uploads = Append(@, [files |-> files, client |-> client])],
                       "Uploading")

\* A handleFileDrop whose loop ends at the first upload that fails
handleFileDropResumeStopping(c, k, ok) ==
    LET call == c.uploads[k]
        file == Head(call.files)
        started == IF ok
                   THEN showToast([c EXCEPT !.addItems =
                                      Append(@, [filename |-> file, filePath |-> UserPath(file),
                                                 drop |-> call.client])],
                                  "Uploaded")
                   ELSE showToast(c, "Error uploading")
    IN  IF Tail(call.files) = <<>> \/ ~ok
        THEN [started EXCEPT !.uploads = RemoveAt(@, k)]
        ELSE [started EXCEPT !.uploads[k].files = Tail(call.files)]

\* handleFileDrop from the reply to POST /user for its current file on: on
\* success addNewItemToPage is started (it suspends at its fetch or parse), then
\* the next file is uploaded
handleFileDropResume(c, k, ok) ==
    LET call == c.uploads[k]
        file == Head(call.files)
        started == IF ok
                   THEN showToast([c EXCEPT !.addItems =
                                      Append(@, [filename |-> file, filePath |-> UserPath(file),
                                                 drop |-> call.client])],
                                  "Uploaded")
                   ELSE showToast(c, "Error uploading")
    IN  IF Tail(call.files) = <<>>
        THEN [started EXCEPT !.uploads = RemoveAt(@, k)]
        ELSE [started EXCEPT !.uploads[k].files = Tail(call.files)]

\* An addNewItemToPage that places the item at the viewport coordinates of the
\* drop, whatever the place of the page
addNewItemToPageAtViewportPoint(c, k, ok) ==
    LET call == c.addItems[k]
        c1 == [c EXCEPT !.addItems = RemoveAt(@, k)]
        parsedData == parseContent(call.filename)
        newItemId == getItemId(call.filename, c.now)
        dropTargetContainer == PageAt(call.drop)
        targetPage == IF dropTargetContainer # -1 THEN dropTargetContainer ELSE 0
        initialLeft == call.drop[1]
        initialTop == call.drop[2]
        newItemContainer ==
            [createItem(NewNodeId(c.dom, c.draggedElement), newItemId, call.filename,
                        parsedData.parserName)
                EXCEPT !.left = Px(initialLeft), !.top = Px(initialTop)]
        base == [left |-> Def(Px(initialLeft)), top |-> Def(Px(initialTop)),
                 pageIndex |-> Def(PageIndexOf(targetPage)),
                 parser |-> Def(parsedData.parserName), filepath |-> Def(call.filePath),
                 opacity |-> Def(OpacityOne), scale |-> Def("1"), rotation |-> Def(0)]
        positionData ==
            IF parsedData.width # Undefined /\ parsedData.height # Undefined
            THEN Spread(base, [width |-> Def(Px(Val(parsedData.width))),
                               height |-> Def(Px(Val(parsedData.height)))])
            ELSE base
        c2 == [c1 EXCEPT !.dom = appendChild(c1.dom, targetPage, newItemContainer)]
    IN  IF ~ok THEN c1
        ELSE updateAndSavePositions(
                 SetStore(c2, updateItemPosition(StoreOf(c2), newItemId, positionData)))

\* addNewItemToPage from the end of its fetch and parse on; ok: both succeeded
addNewItemToPage(c, k, ok) ==
    LET call == c.addItems[k]
        c1 == [c EXCEPT !.addItems = RemoveAt(@, k)]
        parsedData == parseContent(call.filename)
        newItemId == getItemId(call.filename, c.now)
        dropTargetContainer == PageAt(call.drop)
        targetPage == IF dropTargetContainer # -1 THEN dropTargetContainer ELSE 0
        containerRect == PageOrigin(targetPage)
        initialLeft == call.drop[1] - containerRect[1]
        initialTop == call.drop[2] - containerRect[2]
        newItemContainer ==
            [createItem(NewNodeId(c.dom, c.draggedElement), newItemId, call.filename,
                        parsedData.parserName)
                EXCEPT !.left = Px(initialLeft), !.top = Px(initialTop)]
        base == [left |-> Def(Px(initialLeft)), top |-> Def(Px(initialTop)),
                 pageIndex |-> Def(PageIndexOf(targetPage)),
                 parser |-> Def(parsedData.parserName), filepath |-> Def(call.filePath),
                 opacity |-> Def(OpacityOne), scale |-> Def("1"), rotation |-> Def(0)]
        positionData ==
            IF parsedData.width # Undefined /\ parsedData.height # Undefined
            THEN Spread(base, [width |-> Def(Px(Val(parsedData.width))),
                               height |-> Def(Px(Val(parsedData.height)))])
            ELSE base
        c2 == [c1 EXCEPT !.dom = appendChild(c1.dom, targetPage, newItemContainer)]
    IN  IF ~ok THEN showToast(c1, "Error processing")
        ELSE showToast(updateAndSavePositions(
                           SetStore(c2, updateItemPosition(StoreOf(c2), newItemId, positionData))),
                       "Added")

\* ------------------------------------------------------------------ bounds

MaxHistLen == 2
MaxSaves == 1
MaxInFlight == 2
MaxNodes == 2
MaxNow == 2
MaxTicks == 1
MaxEvents == 6

\* ------------------------------------------------------------------ inputs

\* Pointer positions: over page 0, over page 1, beside the pages
ViewportPoints == {<<30, 40>>, <<30, 850>>, <<600, 850>>}

\* Where inside an element the pointer grabs it
GrabOffset == <<5, 5>>

\* dataTransfer.files of a drop event
FileLists == {<<>>, <<"song.txt">>, <<"pic.png">>}

Modifiers == {"shift", "ctrl", "alt", "none"}

SongRecord ==
    [left |-> Def("17px"), top |-> Def("27px"), pageIndex |-> Def(0),
     parser |-> Def("chord"), filepath |-> Def("/user/song.txt")]

PicRecord ==
    [left |-> Def("17px"), top |-> Def("5px"), pageIndex |-> Def(1),
     parser |-> Def("image"), filepath |-> Def("/user/pic.png"),
     width |-> Def("40px"), height |-> Def("30px")]

\* settings.json when the page is opened: none, not JSON, a saved layout, a
\* layout with an entry that is not an object
InitialSettings ==
    { Undefined,
      Def([readable |-> FALSE, objects |-> <<>>]),
      Def([readable |-> TRUE, objects |-> <<Def(SongRecord), Def(PicRecord)>>]),
      Def([readable |-> TRUE, objects |-> <<Def(SongRecord), Undefined, Def(PicRecord)>>]) }

\* --------------------------------------------------------------------- Init

\* The page as its script starts, settings.json being one of settings
InitWith(settings) ==
    /\ heap = [a \in {itemPositions} |-> EmptyObject]
    /\ positionHistory = <<>>
    /\ historyIndex = -1
    /\ dom = [p \in Pages |-> <<>>]
    /\ draggedElement = 0
    /\ dragOffset = <<0, 0>>
    /\ selectedElementId = ""
    /\ fileDragOver = FALSE
    /\ dragPhase = "none"
    /\ loadPc = "fetch"
    /\ applyRuns = <<>>
    /\ uploads = <<>>
    /\ addItems = <<>>
    /\ deletePending = 0
    /\ saveRequests = <<>>
    /\ serverSettings \in settings
    /\ now = 1
    /\ events = 0

Init == InitWith(InitialSettings)

\* ------------------------------------------------------------------- events

Abs(n) == IF n < 0 THEN -n ELSE n

\* The wheel ticks that separate a record from an untransformed one
TicksOf(pos) ==
    (IF Has(pos, "opacity") THEN (OpacityOne - Val(pos.opacity)) \div opacityStep ELSE 0)
    + (IF Has(pos, "scale") THEN Abs(ParseNum(Val(pos.scale)) - 100) \div scaleStep ELSE 0)
    + (IF Has(pos, "rotation") THEN Abs(Val(pos.rotation)) \div rotateStep ELSE 0)

RECURSIVE Ticks(_, _)
Ticks(store, ids) ==
    IF ids = <<>> THEN 0 ELSE TicksOf(store.rec[Head(ids)]) + Ticks(store, Tail(ids))

\* The states the exploration is cut to
WithinBounds(c) ==
    /\ Len(c.positionHistory) <= MaxHistLen
    /\ Len(c.saveRequests) <= MaxSaves
    /\ Len(c.uploads) + Len(c.addItems) + Len(c.applyRuns) + c.deletePending <= MaxInFlight
    /\ Len(AllNodes(c.dom)) <= MaxNodes
    /\ Len(StoreOf(c).keys) <= MaxNodes
    /\ Ticks(StoreOf(c), StoreOf(c).keys) <= MaxTicks

\* One run of the page's script: the client becomes c, the drag-and-drop
\* operation of the browser is in phase
Deliver(c, phase) ==
    /\ events < MaxEvents
    /\ events' = events + 1
    /\ WithinBounds(c)
    /\ Become(c)
    /\ dragPhase' = phase
    /\ UNCHANGED serverSettings

\* No drag-and-drop operation is in progress: the browser delivers pointer and
\* key events
Idle == dragPhase = "none"

EvClick(target) ==
    /\ Idle
    /\ Deliver(handleClick(Client, target), dragPhase)

\* keydown Delete or Backspace: handleKeyDown, then handleUndoRedoKeys ignores it
EvKeyDelete(removeFromFileSystem) ==
    /\ Idle
    /\ Deliver(handleKeyDown(Client, removeFromFileSystem), dragPhase)

DeleteFileResponse(ok) ==
    /\ deletePending > 0
    /\ Deliver(handleKeyDownResume(Client, ok), dragPhase)

\* keydown Ctrl+Z or Ctrl+Y: handleKeyDown ignores it
EvKeyUndoRedo(key) ==
    /\ Idle
    /\ Deliver(handleUndoRedoKeys(Client, key), dragPhase)

EvWheel(target, modifier, up) ==
    /\ Idle
    /\ target \in NodeIds(dom)
    /\ Deliver(handleWheelTransform(Client, target, modifier, up), dragPhase)

EvDragStart(target) ==
    /\ Idle
    /\ target \in NodeIds(dom)
    /\ LET element == NodeOf(dom, target)
           origin == PageOrigin(ClosestPage(dom, target))
           client == <<origin[1] + ParsePx(element.left) + GrabOffset[1],
                       origin[2] + ParsePx(element.top) + GrabOffset[2]>>
       IN  Deliver(handleDragStart(Client, target, client), "dragging")

\* dragover reaches the listener of body, then the listener of document; with
\* no drag in progress it is the first of a drag of files from outside
EvDragOver(client) ==
    /\ dragPhase \in {"none", "files", "dragging"}
    /\ Deliver(handleDragOver(handleFileDragOver(Client), client),
               IF dragPhase = "none" THEN "files" ELSE dragPhase)

\* dragleave: a drag of files leaves the window, an element drag goes on
EvDragLeave ==
    /\ dragPhase \in {"files", "dragging"}
    /\ Deliver(handleFileDragLeave(Client), IF dragPhase = "files" THEN "none" ELSE dragPhase)

\* drop reaches the listener of body, then the listener of document
EvDrop(client, files) ==
    /\ dragPhase \in {"files", "dragging"}
    /\ Deliver(handleDrop(handleFileDrop(Client, client, files), client),
               IF dragPhase = "dragging" THEN "dropped" ELSE "none")

EvDragEnd ==
    /\ dragPhase \in {"dragging", "dropped"}
    /\ Deliver(handleDragEnd(Client), "none")

LoadResponse(failed) ==
    /\ loadPc = "fetch"
    /\ Deliver(loadPositionsResume(Client, failed, serverSettings), dragPhase)

ApplyResume(k, ok) ==
    /\ k \in DOMAIN applyRuns
    /\ Deliver(applyPositionsResume(Client, k, ok), dragPhase)

UploadResponse(k, ok) ==
    /\ k \in DOMAIN uploads
    /\ Deliver(handleFileDropResume(Client, k, ok), dragPhase)

\* The fetch and the parse of addNewItemToPage end at time t
AddItemResume(k, ok, t) ==
    /\ k \in DOMAIN addItems
    /\ Deliver(addNewItemToPage([Client EXCEPT !.now = t], k, ok), dragPhase)

\* POST /save-positions at the server: the body replaces settings.json
SaveArrives(k) ==
    /\ k \in DOMAIN saveRequests
    /\ events < MaxEvents
    /\ events' = events + 1
    /\ serverSettings' = Def([readable |-> TRUE, objects |-> saveRequests[k].objects])
    /\ saveRequests' = RemoveAt(saveRequests, k)
    /\ UNCHANGED <<heap, positionHistory, historyIndex, dom, draggedElement, dragOffset,
                   selectedElementId, fileDragOver, dragPhase, loadPc, applyRuns, uploads,
                   addItems, deletePending, now>>

\* POST /save-positions is lost or answered with an error
SaveFails(k) ==
    /\ k \in DOMAIN saveRequests
    /\ events < MaxEvents
    /\ events' = events + 1
    /\ Become(savePositionsCatch([Client EXCEPT !.saveRequests = RemoveAt(@, k)]))
    /\ UNCHANGED <<dragPhase, serverSettings>>

Next ==
    \/ \E target \in NodeIds(dom) \cup {0} : EvClick(target)
    \/ \E removeFromFileSystem \in BOOLEAN : EvKeyDelete(removeFromFileSystem)
    \/ \E ok \in BOOLEAN : DeleteFileResponse(ok)
    \/ \E key \in {"z", "y"} : EvKeyUndoRedo(key)
    \/ \E target \in NodeIds(dom), modifier \in Modifiers, up \in BOOLEAN :
          EvWheel(target, modifier, up)
    \/ \E target \in NodeIds(dom) : EvDragStart(target)
    \/ \E client \in ViewportPoints : EvDragOver(client)
    \/ EvDragLeave
    \/ \E client \in ViewportPoints, files \in FileLists : EvDrop(client, files)
    \/ EvDragEnd
    \/ \E failed \in BOOLEAN : LoadResponse(failed)
    \/ \E k \in DOMAIN applyRuns, ok \in BOOLEAN : ApplyResume(k, ok)
    \/ \E k \in DOMAIN uploads, ok \in BOOLEAN : UploadResponse(k, ok)
    \/ \E k \in DOMAIN addItems, ok \in BOOLEAN, t \in now..MaxNow : AddItemResume(k, ok, t)
    \/ \E k \in DOMAIN saveRequests : SaveArrives(k)
    \/ \E k \in DOMAIN saveRequests : SaveFails(k)

Spec == Init /\ [][Next]_vars

\* ------------------------------------------------------ reconciliation runs

\* A saved layout is opened and its items are transformed with the wheel, the
\* transformations undone and redone: the behaviours of the page in which
\* nothing is dragged, dropped or deleted, followed further than the others

MaxReconcileEvents == 10
MaxReconcileNodes == 3

\* settings.json holding a layout of two items
SavedLayout == Def([readable |-> TRUE, objects |-> <<Def(SongRecord), Def(PicRecord)>>])

InitReconcile ==
    /\ Init
    /\ serverSettings = SavedLayout

\* The states a scenario is cut to, with its own number of elements
ScenarioBounds(c, maxNodes, maxSaves) ==
    /\ Len(c.positionHistory) <= MaxHistLen
    /\ Len(c.saveRequests) <= maxSaves
    /\ Len(c.uploads) + Len(c.addItems) + Len(c.applyRuns) + c.deletePending <= MaxInFlight
    /\ Len(AllNodes(c.dom)) <= maxNodes
    /\ Len(StoreOf(c).keys) <= maxNodes
    /\ Ticks(StoreOf(c), StoreOf(c).keys) <= MaxTicks

\* One run of the page's script in a scenario of at most maxEvents events
ScenarioDeliver(c, phase, maxEvents, maxNodes, maxSaves) ==
    /\ events < maxEvents
    /\ events' = events + 1
    /\ ScenarioBounds(c, maxNodes, maxSaves)
    /\ Become(c)
    /\ dragPhase' = phase
    /\ UNCHANGED serverSettings

\* POST /save-positions at the server, in a scenario
ScenarioSave(k, maxEvents) ==
    /\ k \in DOMAIN saveRequests
    /\ events < maxEvents
    /\ events' = events + 1
    /\ serverSettings' = Def([readable |-> TRUE, objects |-> saveRequests[k].objects])
    /\ saveRequests' = RemoveAt(saveRequests, k)
    /\ UNCHANGED <<heap, positionHistory, historyIndex, dom, draggedElement, dragOffset,
                   selectedElementId, fileDragOver, dragPhase, loadPc, applyRuns, uploads,
                   addItems, deletePending, now>>

ReconcileDeliver(c) ==
    ScenarioDeliver(c, dragPhase, MaxReconcileEvents, MaxReconcileNodes, MaxSaves)

ReconcileLoadResponse ==
    /\ loadPc = "fetch"
    /\ ReconcileDeliver(loadPositionsResume(Client, FALSE, serverSettings))

ReconcileApplyResume(k, ok) ==
    /\ k \in DOMAIN applyRuns
    /\ ReconcileDeliver(applyPositionsResume(Client, k, ok))

ReconcileWheel(target, modifier, up) ==
    /\ target \in NodeIds(dom)
    /\ ReconcileDeliver(handleWheelTransform(Client, target, modifier, up))

ReconcileUndoRedo(key) ==
    /\ key \in {"z", "y"}
    /\ ReconcileDeliver(handleUndoRedoKeys(Client, key))

ReconcileSave(k) == ScenarioSave(k, MaxReconcileEvents)

NextReconcile ==
    \/ ReconcileLoadResponse
    \/ \E k \in DOMAIN applyRuns, ok \in BOOLEAN : ReconcileApplyResume(k, ok)
    \/ \E target \in NodeIds(dom), modifier \in Modifiers, up \in BOOLEAN :
          ReconcileWheel(target, modifier, up)
    \/ \E key \in {"z", "y"} : ReconcileUndoRedo(key)
    \/ \E k \in DOMAIN saveRequests : ReconcileSave(k)

SpecReconcile == InitReconcile /\ [][NextReconcile]_vars

\* A saved layout is opened, its items are dragged from place to place and
\* made more or less opaque with the wheel, and the changes undone and redone,
\* while the server is slow to answer the saves: followed further still

MaxRearrangeEvents == 12
MaxRearrangeSaves == 6

RearrangeDeliver(c, phase) ==
    ScenarioDeliver(c, phase, MaxRearrangeEvents, MaxReconcileNodes, MaxRearrangeSaves)

RearrangeLoadResponse ==
    /\ loadPc = "fetch"
    /\ RearrangeDeliver(loadPositionsResume(Client, FALSE, serverSettings), dragPhase)

RearrangeApplyResume(k, ok) ==
    /\ k \in DOMAIN applyRuns
    /\ RearrangeDeliver(applyPositionsResume(Client, k, ok), dragPhase)

RearrangeWheel(target, up) ==
    /\ Idle
    /\ target \in NodeIds(dom)
    /\ RearrangeDeliver(handleWheelTransform(Client, target, "shift", up), dragPhase)

RearrangeUndoRedo(key) ==
    /\ Idle
    /\ key \in {"z", "y"}
    /\ RearrangeDeliver(handleUndoRedoKeys(Client, key), dragPhase)

RearrangeDragStart(target) ==
    /\ Idle
    /\ target \in NodeIds(dom)
    /\ LET element == NodeOf(dom, target)
           origin == PageOrigin(ClosestPage(dom, target))
           client == <<origin[1] + ParsePx(element.left) + GrabOffset[1],
                       origin[2] + ParsePx(element.top) + GrabOffset[2]>>
       IN  RearrangeDeliver(handleDragStart(Client, target, client), "dragging")

RearrangeDrop(client) ==
    /\ dragPhase = "dragging"
    /\ RearrangeDeliver(handleDrop(handleFileDrop(Client, client, <<>>), client), "dropped")

RearrangeDragEnd ==
    /\ dragPhase \in {"dragging", "dropped"}
    /\ RearrangeDeliver(handleDragEnd(Client), "none")

NextRearrange ==
    \/ RearrangeLoadResponse
    \/ \E k \in DOMAIN applyRuns, ok \in BOOLEAN : RearrangeApplyResume(k, ok)
    \/ \E target \in NodeIds(dom), up \in BOOLEAN : RearrangeWheel(target, up)
    \/ \E key \in {"z", "y"} : RearrangeUndoRedo(key)
    \/ \E target \in NodeIds(dom) : RearrangeDragStart(target)
    \/ \E client \in ViewportPoints : RearrangeDrop(client)
    \/ RearrangeDragEnd

SpecRearrange == InitReconcile /\ [][NextRearrange]_vars

\* The same over a layout of one item, saved with a page index that may name
\* no page of the document: below the first page, the page after the last
\* one, a page far beyond it

SavedPageIndexes == {-1, 0, 1, 2, 5}

InitFallback ==
    InitWith({ Def([readable |-> TRUE,
                    objects |-> <<Def([SongRecord EXCEPT !.pageIndex = Def(pageIndex)])>>]) :
               pageIndex \in SavedPageIndexes })

SpecFallback == InitFallback /\ [][NextRearrange]_vars

\* The same over a settings.json written by hand: an item saved with the
\* default opacity, scale and rotation spelled out next to an item that has an
\* id and no file, or an item that has both an id and a file

NoteRecord == [id |-> Def("note"), left |-> Def("17px"), top |-> Def("5px")]

HandWrittenLayouts ==
    { Def([readable |-> TRUE,
           objects |-> <<Def(Spread(SongRecord, [opacity |-> Def(OpacityOne), scale |-> Def("1"),
                                                 rotation |-> Def(0)])),
                         Def(NoteRecord)>>]),
      Def([readable |-> TRUE,
           objects |-> <<Def(Spread(SongRecord, [id |-> Def("tune")]))>>]) }

InitHandWritten == InitWith(HandWrittenLayouts)

SpecHandWritten == InitHandWritten /\ [][NextRearrange]_vars

\* A session that opens a layout in which an earlier session faded the song
\* with the wheel, and goes on turning the wheel with Shift over it

MaxFadeEvents == 9

\* The opacity the earlier session saved, in hundredths
FadedOpacities == {opacityStep, 2 * opacityStep, OpacityOne - opacityStep}

InitFaded ==
    InitWith({ Def([readable |-> TRUE,
                    objects |-> <<Def(Spread(SongRecord, [opacity |-> Def(opacity)]))>>]) :
               opacity \in FadedOpacities })

FadeDeliver(c) ==
    /\ events < MaxFadeEvents
    /\ events' = events + 1
    /\ Become(c)
    /\ UNCHANGED <<dragPhase, serverSettings>>

FadeLoadResponse ==
    /\ loadPc = "fetch"
    /\ FadeDeliver(loadPositionsResume(Client, FALSE, serverSettings))

FadeApplyResume(k, ok) ==
    /\ k \in DOMAIN applyRuns
    /\ FadeDeliver(applyPositionsResume(Client, k, ok))

FadeWheel(target, up) ==
    /\ target \in NodeIds(dom)
    /\ FadeDeliver(handleWheelTransform(Client, target, "shift", up))

NextFade ==
    \/ FadeLoadResponse
    \/ \E k \in DOMAIN applyRuns, ok \in BOOLEAN : FadeApplyResume(k, ok)
    \/ \E target \in NodeIds(dom), up \in BOOLEAN : FadeWheel(target, up)

SpecFade == InitFaded /\ [][NextFade]_vars

\* ------------------------------------------------------ default arrangement

\* The reply to GET /load-positions arrives when files dropped before it have
\* put items in the document: the load fails or finds no file, and
\* initializeDefaultPositions goes over the items.  Some of them have a record.

MaxArrangeItems == 5

\* style.height of an item: none (the height is that of the content), or that
\* of a tall image
ArrangeHeights == {"", "300px", "700px"}

ArrangeItemId(j) == "item" \o ToString(j)

\* The record of an item that has a position
ArrangeRecord == [left |-> Def("17px"), top |-> Def("27px"), pageIndex |-> Def(1),
                  opacity |-> Def(OpacityOne - opacityStep)]

RECURSIVE ArrangeStore(_, _, _)
ArrangeStore(store, n, positioned) ==
    IF n = 0 THEN store
    ELSE LET rest == ArrangeStore(store, n - 1, positioned)
         IN  IF n \in positioned THEN SetKey(rest, ArrangeItemId(n), ArrangeRecord) ELSE rest

InitArrange ==
    /\ \E n \in 0..MaxArrangeItems :
          \E heights \in [1..n -> ArrangeHeights], positioned \in SUBSET (1..n) :
              /\ dom = [p \in Pages |->
                           IF p = 0
                           THEN [j \in 1..n |->
                                    [createItem(j, ArrangeItemId(j), "song.txt", "chord")
                                        EXCEPT !.height = heights[j]]]
                           ELSE <<>>]
              /\ heap = [a \in {itemPositions} |-> ArrangeStore(EmptyObject, n, positioned)]
    /\ positionHistory = <<>>
    /\ historyIndex = -1
    /\ draggedElement = 0
    /\ dragOffset = <<0, 0>>
    /\ selectedElementId = ""
    /\ fileDragOver = FALSE
    /\ dragPhase = "none"
    /\ loadPc = "fetch"
    /\ applyRuns = <<>>
    /\ uploads = <<>>
    /\ addItems = <<>>
    /\ deletePending = 0
    /\ saveRequests = <<>>
    /\ serverSettings = Undefined
    /\ now = 1
    /\ events = 0

\* failed: the request was rejected; otherwise it is answered with 404
ArrangeLoadResponse(failed) ==
    /\ loadPc = "fetch"
    /\ events' = events + 1
    /\ Become(loadPositionsResume(Client, failed, serverSettings))
    /\ UNCHANGED <<dragPhase, serverSettings>>

NextArrange == \E failed \in BOOLEAN : ArrangeLoadResponse(failed)

SpecArrange == InitArrange /\ [][NextArrange]_vars

\* ------------------------------------------------------------ ingestions

\* Files are dropped on a page that has no saved layout, one drop after the
\* other: the behaviours in which nothing else is done, followed further than
\* the others

MaxIngestEvents == 9
MaxIngestSaves == 2

InitIngest ==
    /\ Init
    /\ serverSettings = Undefined

IngestDeliver(c, phase) ==
    ScenarioDeliver(c, phase, MaxIngestEvents, MaxNodes, MaxIngestSaves)

\* The clock a millisecond or more after the previous event: the user's hand
\* is slower than the clock
Later(c) == [c EXCEPT !.now = @ + 1]

\* The times at which a reply or a parse can end: in the millisecond of the
\* previous event, or later
Soon == {now, now + 1}

IngestLoadResponse(t) ==
    /\ loadPc = "fetch"
    /\ IngestDeliver(loadPositionsResume([Client EXCEPT !.now = t], FALSE, serverSettings),
                     dragPhase)

IngestDragOver(client) ==
    /\ dragPhase \in {"none", "files"}
    /\ IngestDeliver(handleDragOver(handleFileDragOver(Later(Client)), client), "files")

IngestDrop(client, files) ==
    /\ dragPhase = "files"
    /\ IngestDeliver(handleDrop(handleFileDrop(Later(Client), client, files), client), "none")

IngestUploadResponse(k, ok, t) ==
    /\ k \in DOMAIN uploads
    /\ IngestDeliver(handleFileDropResume([Client EXCEPT !.now = t], k, ok), dragPhase)

\* The fetch and the parse of addNewItemToPage end at time t
IngestAddItemResume(k, ok, t) ==
    /\ k \in DOMAIN addItems
    /\ IngestDeliver(addNewItemToPage([Client EXCEPT !.now = t], k, ok), dragPhase)

IngestSave(k) == ScenarioSave(k, MaxIngestEvents)

NextIngest ==
    \/ \E t \in Soon : IngestLoadResponse(t)
    \/ \E client \in ViewportPoints : IngestDragOver(client)
    \/ \E client \in ViewportPoints, files \in FileLists : IngestDrop(client, files)
    \/ \E k \in DOMAIN uploads, ok \in BOOLEAN, t \in Soon : IngestUploadResponse(k, ok, t)
    \/ \E k \in DOMAIN addItems, ok \in BOOLEAN, t \in Soon : IngestAddItemResume(k, ok, t)
    \/ \E k \in DOMAIN saveRequests : IngestSave(k)

SpecIngest == InitIngest /\ [][NextIngest]_vars

\* ------------------------------------------------- drops of several files

\* Two files are dropped at once on a page that has no saved layout

\* dataTransfer.files of a drop of two files
ManyFiles == {<<"song.txt", "pic.png">>}

NextManyFiles ==
    \/ \E t \in Soon : IngestLoadResponse(t)
    \/ \E client \in ViewportPoints : IngestDragOver(client)
    \/ \E client \in ViewportPoints, files \in ManyFiles : IngestDrop(client, files)
    \/ \E k \in DOMAIN uploads, ok \in BOOLEAN, t \in Soon : IngestUploadResponse(k, ok, t)
    \/ \E k \in DOMAIN addItems, ok \in BOOLEAN, t \in Soon : IngestAddItemResume(k, ok, t)
    \/ \E k \in DOMAIN saveRequests : IngestSave(k)

SpecManyFiles == InitIngest /\ [][NextManyFiles]_vars

\* ------------------------------------------------------- the history manager

\* The history manager and the Store on their own: the exported functions of the
\* state module, called in any order

MaxSnapshots == 3

\* The partial records updateItemPosition is called with
PositionInputs ==
    { [opacity |-> Def(50)], [opacity |-> Def(OpacityOne)], [width |-> Undefined] }

HistoryIds == {"song"}

ClientVars ==
    <<dom, draggedElement, dragOffset, selectedElementId, fileDragOver, dragPhase, loadPc,
      applyRuns, uploads, addItems, deletePending, saveRequests, serverSettings, events>>

SetMachine(m) ==
    /\ heap' = m.heap
    /\ positionHistory' = m.positionHistory
    /\ historyIndex' = m.historyIndex

InitHistory ==
    /\ Init
    /\ serverSettings = Undefined

CallUpdate(id, positionData) ==
    /\ SetMachine(WithStore(Machine, updateItemPosition(Store, id, positionData)))
    /\ UNCHANGED <<ClientVars, now>>

CallDelete(id) ==
    /\ SetMachine(WithStore(Machine, deleteItemPosition(Store, id)))
    /\ UNCHANGED <<ClientVars, now>>

CallClear ==
    /\ SetMachine(WithStore(Machine, clearItemPositions(Store)))
    /\ UNCHANGED <<ClientVars, now>>

CallInit ==
    /\ SetMachine(initializeHistory(Machine, itemPositions))
    /\ UNCHANGED <<ClientVars, now>>

CallAdd ==
    /\ Len(addStateToHistory(Machine).positionHistory) <= MaxSnapshots
    /\ SetMachine(addStateToHistory(Machine))
    /\ UNCHANGED <<ClientVars, now>>

CallUndo ==
    /\ SetMachine(undoHistory(Machine))
    /\ UNCHANGED <<ClientVars, now>>

CallRedo ==
    /\ SetMachine(redoHistory(Machine))
    /\ UNCHANGED <<ClientVars, now>>

NextHistory ==
    \/ \E id \in HistoryIds, positionData \in PositionInputs : CallUpdate(id, positionData)
    \/ \E id \in HistoryIds : CallDelete(id)
    \/ CallClear
    \/ CallInit
    \/ CallAdd
    \/ CallUndo
    \/ CallRedo

SpecHistory == InitHistory /\ [][NextHistory]_vars

\* ---------------------------------------------------------------- the Store

\* The Store on its own: upsert, remove and clear called in any order, with
\* partial records that carry default and other values of every transform

StoreIds == {"song", "pic"}

StorePartials ==
    { [left |-> Def("10px")],
      [opacity |-> Def(50)], [opacity |-> Def(OpacityOne)], [opacity |-> Def(120)],
      [opacity |-> Undefined],
      [rotation |-> Def(5)], [rotation |-> Def(0)],
      [scale |-> Def("1.05")], [scale |-> Def("1")],
      [opacity |-> Def(OpacityOne), rotation |-> Def(0), width |-> Def("40px")] }

NextStore ==
    \/ \E id \in StoreIds, positionData \in StorePartials : CallUpdate(id, positionData)
    \/ \E id \in StoreIds : CallDelete(id)
    \/ CallClear

SpecStore == InitHistory /\ [][NextStore]_vars

\* ------------------------------------------------------- the history bound

\* MaxRecords changes of the Store, each recorded, the k-th at time k; then
\* undo after undo

MaxRecords == 150

BoundRecord ==
    /\ now <= MaxRecords
    /\ SetMachine(addStateToHistory(
           WithStore(Machine, updateItemPosition(Store, "song", [top |-> Def(Px(now))]))))
    /\ now' = now + 1
    /\ UNCHANGED ClientVars

BoundUndo ==
    /\ now > MaxRecords
    /\ SetMachine(undoHistory(Machine))
    /\ UNCHANGED <<ClientVars, now>>

NextBound == BoundRecord \/ BoundUndo

SpecBound == InitHistory /\ [][NextBound]_vars /\ WF_vars(BoundUndo)

\* ------------------------------------------------------------- properties

\* The Stores one mutation away from store
Mutated(store) ==
    {updateItemPosition(store, id, positionData) :
        id \in HistoryIds, positionData \in PositionInputs}
    \cup {deleteItemPosition(store, id) : id \in HistoryIds}
    \cup {clearItemPositions(store)}

\* C1: undo/redo round trip.  With A the snapshot at historyIndex, for every
\* Store B a mutation leads to: after record(), undo() returns a snapshot and
\* leaves the Store deep-equal to A, and the redo() after it returns a snapshot
\* and leaves the Store deep-equal to B.
C1_RoundTrip ==
    historyIndex >= 0 =>
        \A B \in Mutated(Store) :
            LET A == Snapshot(historyIndex)
                recorded == addStateToHistory(WithStore(Machine, B))
                undone == undoHistory(recorded)
                redone == redoHistory(undone)
            IN  /\ undone.ret # Undefined
                /\ DeepEqual(undone.heap[itemPositions], A)
                /\ redone.ret # Undefined
                /\ DeepEqual(redone.heap[itemPositions], B)

\* A was recorded, the Store was changed to some other B and B was recorded
C1_Witness ==
    /\ historyIndex >= 1
    /\ historyIndex = Len(positionHistory) - 1
    /\ DeepEqual(Store, Snapshot(historyIndex))
    /\ ~DeepEqual(Snapshot(historyIndex), Snapshot(historyIndex - 1))
    /\ Mutated(Snapshot(historyIndex - 1)) # {}

\* C2: branch on new change.  record() called while historyIndex is not at the
\* last snapshot discards every snapshot after historyIndex and appends the new
\* one, so that historyIndex is at the end and redo() returns none and leaves
\* everything as it is.
C2_BranchOnNewChange ==
    (historyIndex >= 0 /\ historyIndex < Len(positionHistory) - 1) =>
        LET recorded == addStateToHistory(Machine)
            redone == redoHistory(recorded)
        IN  /\ Len(recorded.positionHistory) = historyIndex + 2
            /\ SubSeq(recorded.positionHistory, 1, historyIndex + 1)
                   = SubSeq(positionHistory, 1, historyIndex + 1)
            /\ recorded.positionHistory[historyIndex + 2] \notin Range(positionHistory)
            /\ DeepEqual(recorded.heap[recorded.positionHistory[historyIndex + 2]], Store)
            /\ recorded.historyIndex = Len(recorded.positionHistory) - 1
            /\ redone.ret = Undefined
            /\ redone.heap = recorded.heap
            /\ redone.positionHistory = recorded.positionHistory
            /\ redone.historyIndex = recorded.historyIndex

\* One undo from the top of a 3-deep history, the Store then changed
C2_Witness ==
    /\ Len(positionHistory) = 3
    /\ historyIndex = 1
    /\ ~DeepEqual(Store, Snapshot(1))
    /\ ~DeepEqual(Store, Snapshot(2))

\* C3: the history bound.  The stack never holds more than maxHistorySize
\* snapshots and record() never makes it longer than that; after MaxRecords
\* recorded changes in a row the undos reach historyIndex 0, where the Store is
\* the earliest retained snapshot and one more undo() returns none and changes
\* nothing.
C3_HistoryBound ==
    /\ [](/\ Len(positionHistory) <= maxHistorySize
          /\ Len(addStateToHistory(Machine).positionHistory) <= maxHistorySize
          /\ -1 <= historyIndex /\ historyIndex < Max(1, Len(positionHistory))
          /\ (now > MaxRecords /\ historyIndex = 0) =>
                /\ Store.rec["song"].top = Def(Px(MaxRecords - maxHistorySize + 1))
                /\ undoHistory(Machine).ret = Undefined
                /\ undoHistory(Machine).heap = heap
                /\ undoHistory(Machine).historyIndex = 0)
    /\ (now > MaxRecords) ~> (historyIndex = 0)

\* The undos after MaxRecords records have come down to the earliest snapshot
C3_Witness ==
    /\ now > MaxRecords
    /\ Len(positionHistory) = maxHistorySize
    /\ historyIndex = 0

\* C4: undo() at historyIndex 0 and redo() at the last snapshot return none and
\* leave the Store, historyIndex and every snapshot as they are.
C4_NoOpAtEnds ==
    /\ historyIndex = 0 =>
          undoHistory(Machine)
              = [heap |-> heap, positionHistory |-> positionHistory,
                 historyIndex |-> historyIndex, ret |-> Undefined]
    /\ historyIndex = Len(positionHistory) - 1 =>
          redoHistory(Machine)
              = [heap |-> heap, positionHistory |-> positionHistory,
                 historyIndex |-> historyIndex, ret |-> Undefined]

\* historyIndex is 0 and at the last snapshot, and the Store has moved away from
\* that snapshot, so that a restore would show
C4_Witness ==
    /\ historyIndex = 0
    /\ Len(positionHistory) = 1
    /\ ~DeepEqual(Store, Snapshot(0))

\* C5: snapshots are immutable and never aliased.  No snapshot of the stack is
\* the live Store object or is held twice, and in every step every snapshot that
\* stays in the stack keeps its contents, whatever the step does to the Store.
C5_SnapshotsImmutable ==
    /\ [](/\ itemPositions \notin Range(positionHistory)
          /\ \A i, j \in DOMAIN positionHistory :
                positionHistory[i] = positionHistory[j] => i = j)
    /\ [][\A a \in Range(positionHistory) \cap Range(positionHistory') :
             heap'[a] = heap[a]]_vars

\* After an undo the Store was mutated: it differs from the snapshot restored
C5_Witness ==
    /\ Len(positionHistory) >= 2
    /\ historyIndex < Len(positionHistory) - 1
    /\ ~DeepEqual(Store, Snapshot(historyIndex))
    /\ ~DeepEqual(Snapshot(historyIndex), Snapshot(historyIndex + 1))

\* The step is one of the user actions that change the Store and save: an
\* element drop, a wheel tick, the end of a file-drop ingestion, a deletion
UserActionStep ==
    \/ \E client \in ViewportPoints, files \in FileLists : EvDrop(client, files)
    \/ \E target \in NodeIds(dom), modifier \in Modifiers, up \in BOOLEAN :
          EvWheel(target, modifier, up)
    \/ \E k \in DOMAIN addItems, ok \in BOOLEAN, t \in now..MaxNow : AddItemResume(k, ok, t)
    \/ \E removeFromFileSystem \in BOOLEAN : EvKeyDelete(removeFromFileSystem)

\* The step pushed one snapshot, a copy of the Store it leaves, behind the
\* snapshot at historyIndex, and the save issued last carries that Store
RecordedThenSaved ==
    /\ Len(positionHistory') = historyIndex + 2
    /\ SubSeq(positionHistory', 1, historyIndex + 1) = SubSeq(positionHistory, 1, historyIndex + 1)
    /\ positionHistory'[historyIndex + 2] \notin Range(positionHistory)
    /\ historyIndex' = historyIndex + 1
    /\ DeepEqual(heap'[positionHistory'[historyIndex + 2]], heap'[itemPositions])
    /\ saveRequests' = Append(saveRequests, positionsToSave(heap'[itemPositions]))

\* C6: every user action (element drop, wheel tick, file-drop ingestion,
\* deletion) that changes the Store and issues a save pushes exactly one
\* snapshot, a copy of the Store as the action leaves it, and the save carries
\* that same Store.
C6_RecordBeforeSave ==
    [][(/\ UserActionStep
        /\ heap'[itemPositions] # heap[itemPositions]
        /\ Len(saveRequests') > Len(saveRequests))
       => RecordedThenSaved]_vars

\* C7: from dragstart to drop nothing but the drop changes the Store or the
\* history, and the drop pushes a snapshot of the Store it leaves, in which the
\* dragged item is where its element was dropped.
C7_GestureIsolation ==
    /\ [][(dragPhase = "dragging" /\ dragPhase' # "dropped")
          => UNCHANGED <<heap, positionHistory, historyIndex>>]_vars
    /\ [][(dragPhase = "dragging" /\ dragPhase' = "dropped"
              /\ InDocument(dom, draggedElement))
          => LET element == NodeOf(dom', draggedElement)
             IN  /\ historyIndex' = Len(positionHistory') - 1
                 /\ positionHistory'[historyIndex' + 1] \notin Range(positionHistory)
                 /\ DeepEqual(heap'[positionHistory'[historyIndex' + 1]], heap'[itemPositions])
                 /\ heap'[itemPositions].rec[element.id].left = Def(element.left)
                 /\ heap'[itemPositions].rec[element.id].top = Def(element.top)]_vars

\* The step is a dragover or a drop
DragOverOrDropStep ==
    \/ \E client \in ViewportPoints : EvDragOver(client)
    \/ \E client \in ViewportPoints, files \in FileLists : EvDrop(client, files)

\* C8: while draggedElement is set a dragover or a drop starts no upload and no
\* ingestion, adds no key to the Store other than the dragged item's and does
\* not switch the file-drag-over feedback on; a drop while it is unset leaves
\* the Store, the history, the DOM and the saves alone.
C8_DragFlagGates ==
    /\ [][(draggedElement # 0 /\ DragOverOrDropStep)
          => /\ uploads' = uploads
             /\ addItems' = addItems
             /\ (fileDragOver' => fileDragOver)
             /\ \A id \in DOMAIN heap'[itemPositions].rec \ DOMAIN heap[itemPositions].rec :
                   /\ InDocument(dom, draggedElement)
                   /\ id = NodeOf(dom, draggedElement).id]_vars
    /\ [][(draggedElement = 0
              /\ \E client \in ViewportPoints, files \in FileLists : EvDrop(client, files))
          => UNCHANGED <<heap, positionHistory, historyIndex, dom, saveRequests>>]_vars

\* An element was dropped: its drop started no upload
C8_Witness ==
    /\ dragPhase = "dropped"
    /\ draggedElement # 0
    /\ ~fileDragOver
    /\ uploads = <<>>
    /\ addItems = <<>>
    /\ Len(positionHistory) >= 2

\* The settings the server holds make the load succeed
LoadSucceeds ==
    /\ serverSettings # Undefined
    /\ Val(serverSettings).readable
    /\ ~PopulateFrom(EmptyObject, Val(serverSettings).objects, 1).threw

\* A run of applyPositions that loadPositions awaits is suspended
LoadApplying(runs) == \E k \in DOMAIN runs : runs[k].forLoad

\* The step ends with a stack of one fresh snapshot, a copy of the Store
HistoryInitialized ==
    /\ Len(positionHistory') = 1
    /\ historyIndex' = 0
    /\ positionHistory'[1] \notin Range(positionHistory)
    /\ DeepEqual(heap'[positionHistory'[1]], heap'[itemPositions])

\* C9: load sequencing.  The reply to the fetch populates the Store and starts
\* applyPositions; while that run is suspended the load leaves the history
\* alone; the step that completes the run initializes the history, with a copy
\* of the Store as it then is.
C9_LoadSequencing ==
    /\ [](loadPc = "apply" <=> LoadApplying(applyRuns))
    /\ [][(LoadResponse(FALSE) /\ LoadSucceeds)
          => /\ heap'[itemPositions]
                    = PopulateFrom(EmptyObject, Val(serverSettings).objects, 1).store
             /\ loadPc' \in {"apply", "done"}
             /\ loadPc' = "apply" => UNCHANGED <<positionHistory, historyIndex>>
             /\ loadPc' = "done" => HistoryInitialized]_vars
    /\ [][(loadPc = "apply" /\ loadPc' = "done")
          => /\ ~LoadApplying(applyRuns')
             /\ HistoryInitialized]_vars

\* A load that had to create both elements has completed
C9_Witness ==
    /\ loadPc = "done"
    /\ Store.keys = <<"song", "pic">>
    /\ getElementById(dom, "song") # 0
    /\ getElementById(dom, "pic") # 0
    /\ Len(positionHistory) = 1
    /\ historyIndex = 0
    /\ DeepEqual(Snapshot(0), Store)

\* The records of the array the server sent
LoadedRecords(objects) == {Val(objects[i]) : i \in {j \in DOMAIN objects : objects[j] # Undefined}}

\* store holds some of the records of objects and lacks others
HalfPopulated(store, objects) ==
    LET have == {store.rec[id] : id \in DOMAIN store.rec} \cap LoadedRecords(objects)
    IN  have # {} /\ have # LoadedRecords(objects)

\* C10: a load that fails does not leave the Store with some of the loaded
\* records and without the others.
C10_NoHalfPopulatedStore ==
    [][((\E failed \in BOOLEAN : LoadResponse(failed)) /\ serverSettings # Undefined)
       => ~HalfPopulated(heap'[itemPositions], Val(serverSettings).objects)]_vars

\* The step is the reply to GET /load-positions of a load that fails: the
\* request is rejected or answered with an error status, there is no file
\* (404), the body is not JSON, or an entry of the array makes the populating
\* loop throw
LoadFailsStep ==
    \E failed \in BOOLEAN : LoadResponse(failed) /\ (failed \/ ~LoadSucceeds)

\* C11: when the load fails (404 or any other way) the default arrangement
\* runs: every item of the document has a Store record afterwards, the load is
\* over and the history holds exactly one snapshot, a copy of the resulting
\* Store, with historyIndex 0.  Once the load is over the history is never
\* uninitialized.
C11_FallbackInitializesHistory ==
    /\ [][LoadFailsStep
          => /\ loadPc' = "done"
             /\ HistoryInitialized
             /\ \A n \in Range(AllNodes(dom')) :
                   n.id # "" => HasKey(heap'[itemPositions], n.id)]_vars
    /\ [](loadPc = "done" => (historyIndex >= 0 /\ Len(positionHistory) >= 1))

\* A failed load arranged an item that had no record: the item of a file
\* dropped before the reply, after the populating loop threw
C11_Witness ==
    /\ loadPc = "done"
    /\ Len(positionHistory) = 1
    /\ historyIndex = 0
    /\ DeepEqual(Snapshot(0), Store)
    /\ \E n \in Range(AllNodes(dom)) :
          /\ HasKey(Store, n.id)
          /\ Store.rec[n.id].left = Def(Px(padding))
          /\ Store.rec[n.id].top = Def(Px(padding))
          /\ n.left = Px(padding)

\* The live elements that carry the id
ElementsWithId(d, id) == {n.nid : n \in {e \in Range(AllNodes(d)) : e.id = id}}

\* C12: at every moment, whatever the interleaving of the load, the
\* applyPositions runs of undo and redo and the gestures, every key of the
\* Store has at most one live element with its id.
C12_OneElementPerKey ==
    \A id \in DOMAIN Store.rec : Cardinality(ElementsWithId(dom, id)) <= 1

\* The step completes an ingestion whose fetch and parse succeeded
IngestionCompletes ==
    \E k \in DOMAIN addItems, t \in Soon : IngestAddItemResume(k, TRUE, t)

\* C13: every ingestion that completes creates its record under a key the
\* Store did not have: the Store gains exactly one key and every record it held
\* is still there, as it was.
C13_IngestionIdIsFresh ==
    [][IngestionCompletes
       => /\ Cardinality(DOMAIN heap'[itemPositions].rec)
                = Cardinality(DOMAIN heap[itemPositions].rec) + 1
          /\ \A id \in DOMAIN heap[itemPositions].rec :
                /\ id \in DOMAIN heap'[itemPositions].rec
                /\ heap'[itemPositions].rec[id] = heap[itemPositions].rec[id]]_vars

\* The Store the next load builds once the save of store has reached the
\* server: the body savePositions posts is written to settings.json as it is,
\* and the populating loop of loadPositions reads it back
Reloaded(store) == PopulateFrom(EmptyObject, positionsToSave(store).objects, 1).store

SavedFields ==
    {"left", "top", "width", "height", "pageIndex", "opacity", "scale", "rotation",
     "parser", "filepath"}

\* The value of a field of a record, a default value counting as an absent one
FieldOf(rec, f) ==
    IF ~Has(rec, f) THEN Undefined
    ELSE IF f = "opacity" /\ Val(rec[f]) >= OpacityOne THEN Undefined
    ELSE IF f = "rotation" /\ Val(rec[f]) = 0 THEN Undefined
    ELSE IF f = "scale" /\ Val(rec[f]) = "1" THEN Undefined
    ELSE rec[f]

SameItem(a, b) == \A f \in SavedFields : FieldOf(a, f) = FieldOf(b, f)

\* C14: once the Store is saved and the page reloaded, the load rebuilds one
\* record for every item of the saved Store, with the same left, top, width,
\* height, pageIndex, opacity, scale, rotation, parser and filepath.
C14_ReloadRebuildsStore ==
    LET reloaded == Reloaded(Store)
    IN  /\ Len(reloaded.keys) = Len(Store.keys)
        /\ \A id \in DOMAIN Store.rec :
              \E loadedId \in DOMAIN reloaded.rec :
                 SameItem(reloaded.rec[loadedId], Store.rec[id])

\* What upsert merges the partial record into
UpsertBase(store, id) ==
    IF HasKey(store, id) THEN store.rec[id] ELSE [left |-> Def("0px"), top |-> Def("0px")]

\* C15: for every id and every partial record, the record get(id) returns
\* after upsert(id, partial) has no opacity field when the merged opacity is
\* 1.0 or more and no rotation field when the merged rotation is 0; every
\* field it has holds the merged value.
C15_UpsertNormalizes ==
    \A id \in StoreIds, positionData \in StorePartials :
        LET merged == Spread(UpsertBase(Store, id), positionData)
            got == getItemPosition(updateItemPosition(Store, id, positionData), id)
        IN  /\ got # Undefined
            /\ (Has(merged, "opacity") /\ Val(merged.opacity) >= OpacityOne)
                   => "opacity" \notin DOMAIN Val(got)
            /\ (Has(merged, "rotation") /\ Val(merged.rotation) = 0)
                   => "rotation" \notin DOMAIN Val(got)
            /\ \A f \in DOMAIN Val(got) : Val(got)[f] = merged[f]

\* An upsert with opacity 1.0 and rotation 0 (the one that carries the width
\* 40px) was applied to a record that had an opacity and a rotation
C15_Witness ==
    \E id \in DOMAIN Store.rec :
        /\ Store.rec[id].left = Def("10px")
        /\ Has(Store.rec[id], "width")
        /\ Has(Store.rec[id], "scale")
        /\ "opacity" \notin DOMAIN Store.rec[id]
        /\ "rotation" \notin DOMAIN Store.rec[id]

\* C16: after upsert(id, {scale: "1"}) the record get(id) returns has no scale
\* field.
C16_UpsertNormalizesScale ==
    [][\A id \in StoreIds :
          CallUpdate(id, [scale |-> Def("1")])
             => "scale" \notin DOMAIN Val(getItemPosition(heap'[itemPositions], id))]_vars

\* What is compared of two documents: the elements, and of each its page, its
\* place, its size, its opacity and its transform
DomView(d) ==
    [nid \in NodeIds(d) |->
        LET e == NodeOf(d, nid)
        IN  [page |-> ClosestPage(d, nid), left |-> e.left, top |-> e.top, width |-> e.width,
             height |-> e.height, opacity |-> e.opacity, transform |-> e.transform]]

\* The step is an undo or a redo whose applyPositions ran to its end
ApplyRanToEnd ==
    /\ \E key \in {"z", "y"} : RearrangeUndoRedo(key)
    /\ historyIndex' # historyIndex
    /\ applyRuns' = applyRuns

\* C17: applyPositions run to its end a second time, the Store untouched and
\* the fetches and parses ending as they did, leaves the document as the first
\* run left it: the same elements, each on the same page with the same left,
\* top, width, height, opacity and transform. The first run is the one of an
\* undo or a redo, the second is started as soon as it has ended.
C17_ApplyTwiceIsApplyOnce ==
    [][ApplyRanToEnd =>
          \A ok \in [DOMAIN heap'[itemPositions].rec -> BOOLEAN] :
             DomView(applyPositionsToEnd(Client', ok).dom) = DomView(dom')]_vars

\* The page the item of a record with page index p is to be found on: the page
\* p names, the last page when p is more than the number of pages, page 0
\* otherwise
FallbackPage(p) ==
    IF p \in Pages THEN p ELSE IF p > NumPages THEN NumPages - 1 ELSE 0

\* C18: the element applyPositions creates for a record is placed on the page
\* the record's pageIndex names; when no such page exists, on the page of the
\* highest index if pageIndex is more than the number of pages and on page 0
\* otherwise; never outside a page.
C18_PageFallback ==
    [][\A k \in DOMAIN applyRuns :
          RearrangeApplyResume(k, TRUE) =>
             LET id == applyRuns[k].itemIds[applyRuns[k].i]
                 pos == applyRuns[k].pos
                 p == IF Has(pos, "pageIndex") THEN Val(pos.pageIndex) ELSE 0
             IN  \E n \in Range(AllNodes(dom')) :
                    /\ n.id = id
                    /\ n.nid \notin NodeIds(dom)
                    /\ ClosestPage(dom', n.nid) = FallbackPage(p)]_vars

\* The page a file dropped at the viewport point pt lands on
DropPage(pt) == IF PageAt(pt) # -1 THEN PageAt(pt) ELSE 0

\* C19: the ingestion of a file dropped at the viewport point (x, y) over a
\* page whose box starts at (px, py) leaves a record with left (x - px)px, top
\* (y - py)px and the index of that page as pageIndex, and a new element at
\* that place on that page; a point over no page counts as over page 0.
C19_DropPlacement ==
    [][\A k \in DOMAIN addItems, t \in 1..MaxNow :
          AddItemResume(k, TRUE, t) =>
             LET drop == addItems[k].drop
                 page == DropPage(drop)
                 id == getItemId(addItems[k].filename, t)
                 left == Px(drop[1] - PageOrigin(page)[1])
                 top == Px(drop[2] - PageOrigin(page)[2])
                 stored == heap'[itemPositions]
             IN  /\ HasKey(stored, id)
                 /\ stored.rec[id].left = Def(left)
                 /\ stored.rec[id].top = Def(top)
                 /\ stored.rec[id].pageIndex = Def(page)
                 /\ \E n \in Range(dom'[page]) :
                        /\ n.nid \notin NodeIds(dom)
                        /\ n.id = id
                        /\ n.left = left
                        /\ n.top = top]_vars

\* A file dropped at (30, 850), over page 1 whose box starts at (8, 840), has
\* been ingested
C19_Witness ==
    \E n \in Range(dom[1]) :
        /\ HasKey(Store, n.id)
        /\ n.left = "22px"
        /\ n.top = "10px"
        /\ Store.rec[n.id].left = Def("22px")
        /\ Store.rec[n.id].top = Def("10px")
        /\ Store.rec[n.id].pageIndex = Def(1)
        /\ Store.rec[n.id].scale = Def("1")
        /\ Store.rec[n.id].filepath = Def(UserPath(n.filename))

\* The opacity an element shows, in hundredths
ShownOpacity(n) == IF n.opacity # "" THEN ParseNum(n.opacity) ELSE OpacityOne

\* C20: over an item whose opacity is absent, one wheel-up tick with the
\* opacity modifier (Shift) held stores the opacity 0.95; a tick in the other
\* direction that brings the opacity back to 1.0 or past it leaves the record
\* without an opacity.
C20_WheelOpacity ==
    [][\A target \in NodeIds(dom) :
          LET n == NodeOf(dom, target)
              stored == heap'[itemPositions]
          IN  /\ (/\ EvWheel(target, "shift", TRUE)
                  /\ n.opacity = ""
                  /\ HasKey(Store, n.id) => ~Has(Store.rec[n.id], "opacity"))
                     => /\ HasKey(stored, n.id)
                        /\ Has(stored.rec[n.id], "opacity")
                        /\ Val(stored.rec[n.id].opacity) = OpacityOne - opacityStep
              /\ (/\ EvWheel(target, "shift", FALSE)
                  /\ ShownOpacity(n) < OpacityOne
                  /\ ShownOpacity(n) + opacityStep >= OpacityOne)
                     => /\ HasKey(stored, n.id)
                        /\ ~Has(stored.rec[n.id], "opacity")]_vars

\* C21: for every Store, the objects array savePositions posts has one entry
\* per record, in the order of the keys; no entry has an opacity of 1 or more,
\* a rotation of 0 or the scale "1"; an entry has an id exactly when its record
\* has no filepath; and the Store is what it was.
C21_SaveSerialization ==
    LET c == savePositions(Client)
        body == c.saveRequests[Len(c.saveRequests)]
    IN  /\ c.heap = heap
        /\ Len(body.objects) = Cardinality(DOMAIN Store.rec)
        /\ \A i \in DOMAIN body.objects :
               LET entry == Val(body.objects[i])
                   posData == Store.rec[Store.keys[i]]
               IN  /\ ~(Has(entry, "opacity") /\ Val(entry.opacity) >= OpacityOne)
                   /\ ~(Has(entry, "rotation") /\ Val(entry.rotation) = 0)
                   /\ ~(Has(entry, "scale") /\ Val(entry.scale) = "1")
                   /\ Has(entry, "id") <=> Falsy(posData, "filepath")

\* C22: the handler that meets a failed upload, a failed fetch or parse of
\* content, a failed save, a failed load or a failed deletion of a file shows
\* a toast.
C22_FailuresAreNotified ==
    [][/\ \A k \in DOMAIN uploads :
             UploadResponse(k, FALSE) => handleFileDropResume(Client, k, FALSE).toast # ""
       /\ \A k \in DOMAIN addItems, t \in 1..MaxNow :
             AddItemResume(k, FALSE, t) => addNewItemToPage(Client, k, FALSE).toast # ""
       /\ \A k \in DOMAIN applyRuns :
             ApplyResume(k, FALSE) => applyPositionsResume(Client, k, FALSE).toast # ""
       /\ DeleteFileResponse(FALSE) => handleKeyDownResume(Client, FALSE).toast # ""
       /\ \A k \in DOMAIN saveRequests :
             SaveFails(k) => savePositionsCatch(Client).toast # ""
       /\ LoadResponse(TRUE) => loadPositionsResume(Client, TRUE, serverSettings).toast # ""]_vars

\* C23: right after record(), in whatever state it is called, historyIndex is
\* the index of the last snapshot and that snapshot is deep-equal to the live
\* Store, which record() leaves alone; when record() is called on a full stack
\* at its last snapshot, the stack stays full, the oldest snapshot is gone and
\* every other snapshot is found one index lower, with its contents.
C23_RecordIndexAndEviction ==
    LET m == addStateToHistory(Machine)
        n == Len(m.positionHistory)
    IN  /\ n >= 1
        /\ m.historyIndex = n - 1
        /\ DeepEqual(m.heap[m.positionHistory[n]], m.heap[itemPositions])
        /\ m.heap[itemPositions] = Store
        /\ (historyIndex = Len(positionHistory) - 1 /\ Len(positionHistory) = maxHistorySize)
               => /\ n = maxHistorySize
                  /\ \A i \in 2..maxHistorySize :
                        /\ m.positionHistory[i - 1] = positionHistory[i]
                        /\ m.heap[positionHistory[i]] = heap[positionHistory[i]]

\* record() has evicted: the stack is full, at its last snapshot, and its
\* oldest snapshot is no longer the first change recorded
C23_Witness ==
    /\ Len(positionHistory) = maxHistorySize
    /\ historyIndex = maxHistorySize - 1
    /\ now > maxHistorySize + 2
    /\ Snapshot(0).rec["song"].top = Def(Px(now - maxHistorySize))
    /\ DeepEqual(Snapshot(historyIndex), Store)

\* C24: at every moment -1 <= historyIndex <= length - 1, and historyIndex is
\* -1 exactly while the stack is empty; once the stack holds a snapshot it
\* holds one for ever, with 0 <= historyIndex < length, whatever the order of
\* the load, the gestures, the undos and the redos.
C24_IndexInRange ==
    /\ [](/\ -1 <= historyIndex
          /\ historyIndex <= Len(positionHistory) - 1
          /\ historyIndex = -1 <=> positionHistory = <<>>)
    /\ [][Len(positionHistory) >= 1 =>
             /\ Len(positionHistory') >= 1
             /\ 0 <= historyIndex'
             /\ historyIndex' < Len(positionHistory')]_vars

\* After the history was initialized by the load a change was recorded
C24_Witness ==
    /\ loadPc = "done"
    /\ Len(positionHistory) = 2
    /\ historyIndex = 1

\* No handler is running or suspended at an await, no drag is in progress and
\* every save has been answered
NoHandlerExecuting ==
    /\ loadPc = "done"
    /\ applyRuns = <<>>
    /\ uploads = <<>>
    /\ addItems = <<>>
    /\ deletePending = 0
    /\ saveRequests = <<>>
    /\ dragPhase = "none"

\* C25: once the load has initialized the history, whenever no handler is
\* executing the Store is deep-equal to the snapshot at historyIndex, whatever
\* drops, wheel ticks, file drops, deletions, undos and redos came before.
C25_StoreIsCurrentSnapshot ==
    NoHandlerExecuting => DeepEqual(Store, Snapshot(historyIndex))

\* C26: in every state, whichever of a gesture's upsert, the load of the saved
\* layout, an undo or a redo changed the Store last, no record of the Store has
\* an opacity field of 1.0 or more or a rotation field equal to 0.
C26_StoreIsNormalized ==
    \A id \in DOMAIN Store.rec :
        /\ Has(Store.rec[id], "opacity") => Val(Store.rec[id].opacity) < OpacityOne
        /\ Has(Store.rec[id], "rotation") => Val(Store.rec[id].rotation) # 0

\* C27: after any sequence of wheel ticks with Shift, up or down, the opacity
\* of a Store record is absent or a number strictly between 0 and 1; it is
\* never 0 and never negative.
C27_StoredOpacityRange ==
    \A id \in DOMAIN Store.rec :
        Has(Store.rec[id], "opacity") =>
            /\ 0 < Val(Store.rec[id].opacity)
            /\ Val(Store.rec[id].opacity) < OpacityOne

\* C28: while an element is dragged, a dragover moves only that element in the
\* document (its left, its top, its page) and leaves the Store, the snapshots,
\* historyIndex and the saves as they are; the drop upserts the element's
\* record with where it was dropped, pushes one snapshot after the one at
\* historyIndex and issues one save.
C28_OnlyDropWrites ==
    (dragPhase = "dragging" /\ draggedElement # 0 /\ InDocument(dom, draggedElement)) =>
        \A client \in ViewportPoints :
            LET over == handleDragOver(handleFileDragOver(Client), client)
                drop == handleDrop(handleFileDrop(Client, client, <<>>), client)
                before == NodeOf(dom, draggedElement)
                after == NodeOf(over.dom, draggedElement)
                dropped == NodeOf(drop.dom, draggedElement)
                n == Len(drop.positionHistory)
            IN  /\ over.heap = heap
                /\ over.positionHistory = positionHistory
                /\ over.historyIndex = historyIndex
                /\ over.saveRequests = saveRequests
                /\ removeNode(over.dom, draggedElement) = removeNode(dom, draggedElement)
                /\ after = [before EXCEPT !.left = after.left, !.top = after.top]
                /\ HasKey(StoreOf(drop), dropped.id)
                /\ StoreOf(drop).rec[dropped.id].left = Def(dropped.left)
                /\ StoreOf(drop).rec[dropped.id].top = Def(dropped.top)
                /\ StoreOf(drop).rec[dropped.id].pageIndex
                       = Def(PageIndexOf(ClosestPage(drop.dom, draggedElement)))
                /\ n = historyIndex + 2
                /\ drop.historyIndex = n - 1
                /\ SubSeq(drop.positionHistory, 1, n - 1) = SubSeq(positionHistory, 1, n - 1)
                /\ \A i \in 1..(n - 1) :
                       drop.heap[positionHistory[i]] = heap[positionHistory[i]]
                /\ DeepEqual(drop.heap[drop.positionHistory[n]], StoreOf(drop))
                /\ drop.saveRequests = Append(saveRequests, positionsToSave(StoreOf(drop)))

\* A dragover has carried the dragged element to another page and another
\* position than its record has
C28_Witness ==
    /\ dragPhase = "dragging"
    /\ draggedElement # 0
    /\ InDocument(dom, draggedElement)
    /\ LET node == NodeOf(dom, draggedElement)
       IN  /\ HasKey(Store, node.id)
           /\ Store.rec[node.id].left # Def(node.left)
           /\ Store.rec[node.id].pageIndex # Def(PageIndexOf(ClosestPage(dom, draggedElement)))
           /\ Len(positionHistory) = 1
           /\ saveRequests = <<>>

\* The value a record has for a field, none when it does not have the field
ValueOf(pos, f) == IF Has(pos, f) THEN pos[f] ELSE Undefined

\* C29: the drop of a dragged element whose id has a record leaves that
\* record's width, height, scale, parser and filepath as they were and its
\* opacity and rotation at the same value (an opacity of 1.0 or more and a
\* rotation of 0 being the values of an absent field); the Store has the same
\* keys after it, and every other record is as it was.
C29_DropKeepsTheRest ==
    (dragPhase = "dragging" /\ draggedElement # 0 /\ InDocument(dom, draggedElement)
        /\ HasKey(Store, NodeOf(dom, draggedElement).id)) =>
        \A client \in ViewportPoints :
            LET itemId == NodeOf(dom, draggedElement).id
                drop == StoreOf(handleDrop(handleFileDrop(Client, client, <<>>), client))
            IN  /\ drop.keys = Store.keys
                /\ \A f \in {"width", "height", "scale", "parser", "filepath"} :
                       ValueOf(drop.rec[itemId], f) = ValueOf(Store.rec[itemId], f)
                /\ \A f \in {"opacity", "rotation"} :
                       FieldOf(drop.rec[itemId], f) = FieldOf(Store.rec[itemId], f)
                /\ \A other \in DOMAIN Store.rec \ {itemId} :
                       drop.rec[other] = Store.rec[other]

\* An element the wheel had faded was dropped at another place; its record has
\* the new place and the opacity, and the Store has a second record
C29_Witness ==
    /\ dragPhase = "dropped"
    /\ draggedElement # 0
    /\ InDocument(dom, draggedElement)
    /\ LET node == NodeOf(dom, draggedElement)
       IN  /\ HasKey(Store, node.id)
           /\ Has(Store.rec[node.id], "opacity")
           /\ Val(Store.rec[node.id].opacity) < OpacityOne
           /\ Store.rec[node.id].left = Def(node.left)
           /\ Store.rec[node.id].left # SongRecord.left
           /\ Cardinality(DOMAIN Store.rec) = 2

\* C30: applyPositions leaves the Store, the snapshots and historyIndex as
\* they are, from its start to each await, from each await on (whether the
\* fetch and the parse succeeded or not) and run to its end; an item it cannot
\* create, for want of a parser or a filepath or because the fetch or the
\* parse failed, gets no element and keeps its record.
C30_ApplyLeavesStoreAndHistory ==
    /\ MachineOf(applyPositions(Client, FALSE)) = Machine
    /\ \A k \in DOMAIN applyRuns, ok \in BOOLEAN :
           LET id == applyRuns[k].itemIds[applyRuns[k].i]
               after == applyPositionsResume([Client EXCEPT !.applyRuns[k].forLoad = FALSE], k, ok)
           IN  /\ MachineOf(after) = Machine
               /\ ~ok => getElementById(after.dom, id) = getElementById(dom, id)
    /\ \A ok \in [Range(Store.keys) -> BOOLEAN] :
           LET after == applyPositionsToEnd(Client, ok)
           IN  /\ MachineOf(after) = Machine
               /\ \A id \in Range(Store.keys) :
                      (/\ getElementById(dom, id) = 0
                       /\ \/ ~ok[id]
                          \/ Falsy(Store.rec[id], "parser")
                          \/ Falsy(Store.rec[id], "filepath"))
                          => /\ getElementById(after.dom, id) = 0
                             /\ HasKey(StoreOf(after), id)

\* The load has ended with a record whose file could not be fetched and a
\* record that names no file: neither has an element, both are in the Store
C30_Witness ==
    /\ loadPc = "done"
    /\ applyRuns = <<>>
    /\ Store.keys = <<"song", "note">>
    /\ getElementById(dom, "song") = 0
    /\ getElementById(dom, "note") = 0
    /\ Falsy(Store.rec["note"], "filepath")

\* C31: whichever fetches and parses of a run of applyPositions fail, the run
\* comes to its end, every item of the Store that has an element or whose
\* element can be created and was fetched and parsed has an element that is
\* placed and styled as its record says, and only the items that had no
\* element and could not be created or failed are without one.
C31_FailureIsolation ==
    \A ok \in [DOMAIN Store.rec -> BOOLEAN] :
        LET after == applyPositionsToEnd(Client, ok)
        IN  /\ after.applyRuns = applyRuns
            /\ \A id \in DOMAIN Store.rec :
                   LET live == getElementById(dom, id) # 0
                       pos == Store.rec[id]
                       recreated == ~Falsy(pos, "parser") /\ ~Falsy(pos, "filepath") /\ ok[id]
                   IN  IF live \/ recreated
                       THEN \E element \in NodeIds(after.dom) :
                               /\ NodeOf(after.dom, element).id = id
                               /\ PlaceAndStyle(after.dom, NodeOf(after.dom, element), pos)
                                      = after.dom
                       ELSE getElementById(after.dom, id) = 0

\* The run of the load has ended; the fetch of the song had failed, the image
\* after it was created and is where its record says
C31_Witness ==
    /\ loadPc = "done"
    /\ applyRuns = <<>>
    /\ Store.keys = <<"song", "pic">>
    /\ getElementById(dom, "song") = 0
    /\ getElementById(dom, "pic") # 0
    /\ NodeOf(dom, getElementById(dom, "pic")).left = Val(PicRecord.left)
    /\ ClosestPage(dom, getElementById(dom, "pic")) = Val(PicRecord.pageIndex)

\* The ids of the items of the document
ItemIdsOf(d) == {n.id : n \in Range(AllNodes(d))} \ {""}

\* C32: initializeDefaultPositions issues no save; the records of the Store
\* after it are those before it, each as it was, and one more for each item of
\* the document that had none, holding left, top and pageIndex and nothing
\* else.
C32_ArrangeWritesOnlyNewPlaces ==
    LET after == initializeDefaultPositions(Client)
        arranged == StoreOf(after)
    IN  /\ after.saveRequests = saveRequests
        /\ DOMAIN arranged.rec = DOMAIN Store.rec \cup ItemIdsOf(dom)
        /\ \A id \in DOMAIN Store.rec : arranged.rec[id] = Store.rec[id]
        /\ \A id \in ItemIdsOf(dom) \ DOMAIN Store.rec :
               {f \in DOMAIN arranged.rec[id] : Has(arranged.rec[id], f)}
                   = {"left", "top", "pageIndex"}

\* The arrangement has run over an item that had a record and an item that had
\* none: the first has its record, the second is at the head of the first
\* column of page 0, and nothing was saved
C32_Witness ==
    /\ loadPc = "done"
    /\ saveRequests = <<>>
    /\ HasKey(Store, ArrangeItemId(1))
    /\ Store.rec[ArrangeItemId(1)] = ArrangeRecord
    /\ HasKey(Store, ArrangeItemId(2))
    /\ Store.rec[ArrangeItemId(2)].left = Def(Px(padding))
    /\ Store.rec[ArrangeItemId(2)].top = Def(Px(padding))
    /\ Store.rec[ArrangeItemId(2)].pageIndex = Def(0)

\* The items of the document that have an id and no record, in document order
Unplaced == SelectSeq(AllNodes(dom), LAMBDA n : n.id # "" /\ ~HasKey(Store, n.id))

\* The height the arrangement takes an item to have
HeightOf(n) == IF OffsetHeight(n) # 0 THEN OffsetHeight(n) ELSE defaultItemHeight

\* The flow of the default arrangement: the places (page, column, top) of the
\* items from the j-th on, the place before them being free at cur, up to the
\* first item that finds no page left
RECURSIVE FlowFrom(_, _, _)
FlowFrom(items, j, cur) ==
    IF j > Len(items) THEN <<>>
    ELSE LET h == HeightOf(items[j])
             place == IF cur.top + h <= PageHeight - padding THEN cur
                      ELSE IF cur.column = 1
                      THEN [page |-> cur.page, column |-> 2, top |-> padding]
                      ELSE [page |-> cur.page + 1, column |-> 1, top |-> padding]
         IN  IF place.page >= NumPages THEN <<>>
             ELSE <<place>> \o FlowFrom(items, j + 1,
                                        [place EXCEPT !.top = place.top + h + 15])

\* left of a column: 20, and 20 + (W - 60) / 2 + 20
ColumnLeft(column) ==
    IF column = 1 THEN Px(padding) ELSE Px2(2 * padding + (PageWidth - 3 * padding) + 2 * padding)

\* C33: the default arrangement places the items that have no record in
\* document order from page 0, left 20, top 20 on: each one below the one
\* before it, 15 under its lower edge, unless it would reach below H - 20; then
\* at the head of the second column, and from the second column at the head of
\* the first column of the next page.  As long as there is a next page, every
\* page index given names a page and no two items given the same page and
\* column overlap.
C33_DefaultFlow ==
    LET arranged == StoreOf(initializeDefaultPositions(Client))
        flow == FlowFrom(Unplaced, 1, [page |-> 0, column |-> 1, top |-> padding])
        pos(j) == arranged.rec[Unplaced[j].id]
    IN  /\ \A j \in DOMAIN flow :
               /\ pos(j).left = Def(ColumnLeft(flow[j].column))
               /\ pos(j).top = Def(Px(flow[j].top))
               /\ pos(j).pageIndex = Def(flow[j].page)
               /\ Val(pos(j).pageIndex) \in Pages
        /\ \A i, j \in DOMAIN flow :
               (/\ i < j
                /\ pos(i).pageIndex = pos(j).pageIndex
                /\ pos(i).left = pos(j).left)
                   => ParsePx(Val(pos(i).top)) + HeightOf(Unplaced[i])
                          <= ParsePx(Val(pos(j).top))

\* Four items were arranged: two in the first column of page 0, the third at
\* the head of its second column, the fourth, a tall one, at the head of the
\* first column of page 1
C33_Witness ==
    /\ loadPc = "done"
    /\ Store.keys = <<ArrangeItemId(1), ArrangeItemId(2), ArrangeItemId(3), ArrangeItemId(4)>>
    /\ Store.rec[ArrangeItemId(1)].top = Def(Px(padding))
    /\ Store.rec[ArrangeItemId(2)].left = Def(Px(padding))
    /\ Store.rec[ArrangeItemId(2)].top = Def(Px(20 + 300 + 15))
    /\ Store.rec[ArrangeItemId(3)].left = Def(ColumnLeft(2))
    /\ Store.rec[ArrangeItemId(3)].top = Def(Px(padding))
    /\ Store.rec[ArrangeItemId(3)].pageIndex = Def(0)
    /\ Store.rec[ArrangeItemId(4)].left = Def(Px(padding))
    /\ Store.rec[ArrangeItemId(4)].pageIndex = Def(1)

\* Whether the items from the j-th on find no page left, the place before them
\* being free at cur: an item that does not fit in the second column of the
\* last page finds none, and the place is free again below the head of that
\* column
RECURSIVE OverflowFrom(_, _, _)
OverflowFrom(items, j, cur) ==
    IF j > Len(items) THEN <<>>
    ELSE LET h == HeightOf(items[j])
             fits == cur.top + h <= PageHeight - padding
             over == ~fits /\ cur.column = 2 /\ cur.page = NumPages - 1
             place == IF fits THEN cur
                      ELSE IF cur.column = 1 \/ over
                      THEN [page |-> cur.page, column |-> 2, top |-> padding]
                      ELSE [page |-> cur.page + 1, column |-> 1, top |-> padding]
         IN  <<over>> \o OverflowFrom(items, j + 1,
                                      [place EXCEPT !.top = place.top + h + 15])

\* C34: the default arrangement gives every item without a record a record
\* and a place on a page, and ends with the history initialized; an item that
\* does not fit when no page is left is put at the head of the second column of
\* the last page, at top 20 with the index of that page, whatever is there.
C34_OutOfPages ==
    LET after == initializeDefaultPositions(Client)
        arranged == StoreOf(after)
        over == OverflowFrom(Unplaced, 1, [page |-> 0, column |-> 1, top |-> padding])
    IN  /\ after.historyIndex = 0
        /\ \A j \in DOMAIN Unplaced :
               LET id == Unplaced[j].id
                   element == getElementById(after.dom, id)
               IN  /\ HasKey(arranged, id)
                   /\ element # 0
                   /\ Val(arranged.rec[id].pageIndex) \in Pages
                   /\ ClosestPage(after.dom, element) = Val(arranged.rec[id].pageIndex)
                   /\ NodeOf(after.dom, element).left = Val(arranged.rec[id].left)
                   /\ NodeOf(after.dom, element).top = Val(arranged.rec[id].top)
                   /\ over[j] => /\ arranged.rec[id].pageIndex = Def(NumPages - 1)
                                 /\ arranged.rec[id].left = Def(ColumnLeft(2))
                                 /\ arranged.rec[id].top = Def(Px(20))

\* Tall items were arranged, one to a column; the one that found no page left
\* is where the one before it is, at the head of the second column of the last
\* page
C34_Witness ==
    /\ loadPc = "done"
    /\ historyIndex = 0
    /\ \E j \in 2..MaxArrangeItems :
          /\ HasKey(Store, ArrangeItemId(j))
          /\ HasKey(Store, ArrangeItemId(j - 1))
          /\ Store.rec[ArrangeItemId(j)] = Store.rec[ArrangeItemId(j - 1)]
          /\ Store.rec[ArrangeItemId(j)].pageIndex = Def(NumPages - 1)
          /\ Store.rec[ArrangeItemId(j)].left = Def(ColumnLeft(2))
          /\ Store.rec[ArrangeItemId(j)].top = Def(Px(padding))
          /\ ClosestPage(dom, getElementById(dom, ArrangeItemId(j))) = NumPages - 1

\* C35: Delete or Backspace with an item selected whose element exists takes
\* that element out of the document and the record of its id out of the
\* Store, whatever the answer to the confirmation; every other element and
\* record is as before; the server is asked to delete the file exactly when
\* the answer was yes and the record had a filepath.
C35_DeleteSelected ==
    (selectedElementId # "" /\ getElementById(dom, selectedElementId) # 0) =>
        \A removeFromFileSystem \in BOOLEAN :
            LET after == handleKeyDown(Client, removeFromFileSystem)
                hadFile == /\ HasKey(Store, selectedElementId)
                           /\ ~Falsy(Store.rec[selectedElementId], "filepath")
            IN  /\ after.dom = removeNode(dom, getElementById(dom, selectedElementId))
                /\ DOMAIN StoreOf(after).rec = DOMAIN Store.rec \ {selectedElementId}
                /\ \A other \in DOMAIN StoreOf(after).rec :
                       StoreOf(after).rec[other] = Store.rec[other]
                /\ after.deletePending
                       = deletePending + (IF removeFromFileSystem /\ hadFile THEN 1 ELSE 0)

\* The image was deleted and the deletion of its file is asked for; the song
\* has its element and its record
C35_Witness ==
    /\ loadPc = "done"
    /\ deletePending = 1
    /\ Store.keys = <<"song">>
    /\ Store.rec["song"] = SongRecord
    /\ getElementById(dom, "song") # 0
    /\ getElementById(dom, "pic") = 0

\* What the reply to the upload of a file does: no record, no snapshot and no
\* save; on success addNewItemToPage is started with the stored path, on
\* failure nothing is; the files that remain are uploaded in both cases
C36_UploadReply ==
    \A k \in DOMAIN uploads, ok \in BOOLEAN :
        LET call == uploads[k]
            file == Head(call.files)
            after == handleFileDropResume(Client, k, ok)
        IN  /\ after.heap = heap
            /\ after.positionHistory = positionHistory
            /\ after.historyIndex = historyIndex
            /\ after.saveRequests = saveRequests
            /\ after.addItems =
                   IF ok THEN Append(addItems, [filename |-> file, filePath |-> UserPath(file),
                                                drop |-> call.client])
                   ELSE addItems
            /\ IF Len(call.files) > 1
               THEN /\ Len(after.uploads) = Len(uploads)
                    /\ after.uploads[k].files = Tail(call.files)
               ELSE after.uploads = RemoveAt(uploads, k)

\* What the end of the fetch and the parse of a file does: on failure no
\* record, no snapshot, no save and no element; on success the record with the
\* stored path; the uploads of the other files go on in both cases
C36_Processing ==
    \A k \in DOMAIN addItems :
        LET failed == addNewItemToPage(Client, k, FALSE)
            added == addNewItemToPage(Client, k, TRUE)
            newItemId == getItemId(addItems[k].filename, now)
        IN  /\ failed.heap = heap
            /\ failed.positionHistory = positionHistory
            /\ failed.historyIndex = historyIndex
            /\ failed.saveRequests = saveRequests
            /\ failed.dom = dom
            /\ failed.uploads = uploads
            /\ added.uploads = uploads
            /\ newItemId \in DOMAIN StoreOf(added).rec
            /\ StoreOf(added).rec[newItemId].filepath = Def(addItems[k].filePath)

\* A step that adds a record, the reading of settings.json apart, ends the
\* addNewItemToPage of that file, and a step that starts an addNewItemToPage is
\* the reply to the upload of that file
C36_RecordStep ==
    /\ (loadPc' = loadPc /\ DOMAIN Store'.rec # DOMAIN Store.rec) =>
           \E k \in DOMAIN addItems :
               /\ addItems' = RemoveAt(addItems, k)
               /\ \A id \in (DOMAIN Store'.rec) \ (DOMAIN Store.rec) :
                      Store'.rec[id].filepath = Def(addItems[k].filePath)
    /\ (Len(addItems') > Len(addItems)) =>
           \E k \in DOMAIN uploads :
               /\ addItems'[Len(addItems')].filePath = UserPath(Head(uploads[k].files))
               /\ \/ uploads' = RemoveAt(uploads, k)
                  \/ /\ Len(uploads') = Len(uploads)
                     /\ uploads'[k].files = Tail(uploads[k].files)

\* C36: for each file of a file drop the Store record is created only after the
\* upload has returned success and its stored path is known; a failed upload,
\* content fetch or parse produces no record, no snapshot and no save for that
\* file, and the remaining files of the drop are still processed
C36_RecordAfterUpload ==
    /\ [](C36_UploadReply /\ C36_Processing)
    /\ [][C36_RecordStep]_vars

\* Of the two files of a drop the first has failed and the second has its
\* record, with nothing left to wait for
C36_Witness ==
    /\ uploads = <<>>
    /\ addItems = <<>>
    /\ \E id \in DOMAIN Store.rec : Store.rec[id].filepath = Def(UserPath("pic.png"))
    /\ \A id \in DOMAIN Store.rec : Store.rec[id].filepath # Def(UserPath("song.txt"))

\* C37: Ctrl+Z and Ctrl+Y start applyPositions and a save only when a snapshot
\* was restored; an undo at index 0 (or with no history) and a redo at the end
\* start neither and change nothing; no undo or redo pushes a snapshot or
\* changes the length or the contents of the history stack
C37_UndoRedoShortcuts ==
    \A key \in {"z", "y"} :
        LET after == handleUndoRedoKeys(Client, key)
            target == IF key = "z" THEN historyIndex - 1 ELSE historyIndex + 1
            restores == target >= 0 /\ target < Len(positionHistory)
            restoredState == JSONClone(Snapshot(target))
            restoredClient == [Client EXCEPT !.heap[itemPositions] = restoredState,
                                             !.historyIndex = target]
            applied == applyPositions(restoredClient, FALSE)
        IN  /\ after.positionHistory = positionHistory
            /\ \A i \in 1..Len(positionHistory) :
                   after.heap[positionHistory[i]] = heap[positionHistory[i]]
            /\ IF restores
               THEN /\ after.historyIndex = target
                    /\ StoreOf(after) = restoredState
                    /\ after.dom = applied.dom
                    /\ after.applyRuns = applied.applyRuns
                    /\ after.saveRequests =
                           Append(saveRequests, positionsToSave(restoredState))
               ELSE /\ after.heap = heap
                    /\ after.historyIndex = historyIndex
                    /\ after.dom = dom
                    /\ after.applyRuns = applyRuns
                    /\ after.saveRequests = saveRequests

\* An undo has restored the first of two snapshots and its save is on its way
C37_Witness ==
    /\ Len(positionHistory) = 2
    /\ historyIndex = 0
    /\ Store = JSONClone(Snapshot(0))
    /\ Snapshot(1) # Snapshot(0)
    /\ Len(saveRequests) = 1
    /\ saveRequests[1] = positionsToSave(Store)
    /\ saveRequests[1] # positionsToSave(Snapshot(1))

\* The load has ended, no fetch, parse or upload is awaited and nothing is dragged
Settled ==
    /\ loadPc = "done"
    /\ applyRuns = <<>>
    /\ uploads = <<>>
    /\ addItems = <<>>
    /\ deletePending = 0
    /\ draggedElement = 0

\* C38: after an undo or redo that restored a snapshot, and the applyPositions
\* it starts has run to its end with every fetch and parse succeeding, the ids
\* of the item elements of the document are the keys of the Store, and each
\* key has exactly one element.
C38_ShownIsStored ==
    \A key \in {"z", "y"} :
        LET target == IF key = "z" THEN historyIndex - 1 ELSE historyIndex + 1
            restores == target >= 0 /\ target < Len(positionHistory)
            started == handleUndoRedoKeys(Client, key)
            ok == [id \in DOMAIN StoreOf(started).rec |-> TRUE]
            after == applyPositionsComplete(started, 1, ok)
        IN  (Settled /\ restores) =>
                /\ ItemIdsOf(after.dom) = DOMAIN StoreOf(after).rec
                /\ \A id \in DOMAIN StoreOf(after).rec :
                       Cardinality({n \in NodeIds(after.dom) : NodeOf(after.dom, n).id = id}) = 1

\* C39: once every save request that was issued has been handled by the server
\* and nothing else is under way, settings.json holds the serialization of the
\* current Store, however many saves were issued and in whatever order the
\* server handled them.
C39_EventualPersistence ==
    (Settled /\ saveRequests = <<>> /\ serverSettings # Undefined) =>
        serverSettings = Def([readable |-> TRUE, objects |-> positionsToSave(Store).objects])

\* C40: what a file drop, a wheel tick or an element drop that ended while the
\* initial load was in flight has put in the Store and in the history is still
\* there after the load: no step of the load removes or changes a record of
\* the Store, and each snapshot of the stack is still one when the load ends.
C40_LoadKeepsUserActions ==
    /\ [][(loadPc = "fetch" /\ loadPc' # "fetch") =>
             \A id \in DOMAIN Store.rec :
                 /\ id \in DOMAIN Store'.rec
                 /\ Store'.rec[id] = Store.rec[id]]_vars
    /\ [][(loadPc # "done" /\ loadPc' = "done") =>
             \A i \in 1..Len(positionHistory) :
                 \E j \in 1..Len(positionHistory') :
                     DeepEqual(heap'[positionHistory'[j]], heap[positionHistory[i]])]_vars

====
